---- MODULE Spec2Model ----
(***************************************************************************)
(* A model of knode: node/pod inventory filtering (nodes.py), the kubectl  *)
(* helpers and the drain progress tracker (kubectl.py), the managed node   *)
(* group scaling helpers (aws.py) and the commands built on them (cli.py). *)
(*                                                                         *)
(* Strings the code only compares for equality are TLA+ strings.  Strings  *)
(* the code orders (node, namespace and pod names, node group names) are   *)
(* natural-number codes whose order is the lexicographic order of the      *)
(* names they stand for (1 = "a", 2 = "b", ...).                           *)
(*                                                                         *)
(* The module holds four specifications over disjoint groups of variables: *)
(*   SpecDrain  the execution of one drain_nodes call                      *)
(*   SpecPods   one get_pods_for_nodes call on an arbitrary inventory      *)
(*   SpecCli    one run of pods / cordon / uncordon / drain / cordon-drain *)
(*   SpecScale  one run of the scale command                               *)
(***************************************************************************)
EXTENDS Integers, Sequences, FiniteSets, TLC

VARIABLES
    \* ---- drain_nodes (kubectl.py 190-267) ----
    node_names,      \* argument: the nodes to drain (sequence of name codes)
    show_progress,   \* argument
    pc,              \* position of the calling thread inside drain_nodes
    countOutcome,    \* how the pre-drain `kubectl get pods` ended ("none" before)
    total,           \* local `total`
    evicted,         \* local `evicted` (nonlocal of read_output)
    output_lines,    \* local `output_lines`
    rpc,             \* position of the reader thread inside read_output
    readerJoined,    \* whether the final reader.join(timeout=2) saw the reader finished
    procState,       \* the kubectl drain process: "none", "running", "exited"
    returncode,      \* its exit code once exited
    emitted,         \* every line the process wrote so far, in emission order
    termSent,        \* proc.terminate() has been called
    interruptedAt,   \* procState at the moment the poll/render loop was interrupted
    exc,             \* the exception in flight or raised to the caller ("none")
    display,         \* the progress line on stderr
    ret,             \* the (returncode, output) returned to the caller
    launches         \* the Popen invocations made: [nodes, stderr]

drainVars == <<node_names, show_progress, pc, countOutcome, total, evicted,
               output_lines, rpc, readerJoined, procState, returncode, emitted,
               termSent, interruptedAt, exc, display, ret, launches>>

VARIABLES
    \* ---- get_pods_for_nodes (nodes.py 150-181) ----
    podItems,        \* the "items" of the pod inventory kubectl would return
    podArgs,         \* [node_names, include_daemonsets]
    podCall          \* outcome of the call

podVars == <<podItems, podArgs, podCall>>

VARIABLES
    \* ---- pods / cordon / uncordon / drain / cordon-drain (cli.py 252-434) ----
    cmd,             \* the command run
    node_args,       \* the NODES arguments (sequence of name codes)
    captype,         \* the -c/--captype option (None when absent)
    clusterNodes,    \* the "items" `kubectl get nodes -o json` returns when it works
    cliPc,           \* position inside the command
    resolved,        \* _resolve_nodes has returned
    node_list,       \* local `node_list`
    nodes_by_name,   \* pods_cmd: local `nodes_by_name` (its keys)
    inventory,       \* the latest get_all_nodes() call: where, how the fetch ended, result
    calls,           \* how often each operation was invoked in this run
    cliError,        \* which error message the command printed ("none")
    exitCode,        \* exit status of the command once cliPc = "exit"
    controlLog       \* the cordon / uncordon / drain calls made, in order, and how each ended

cliVars == <<cmd, node_args, captype, clusterNodes, cliPc, resolved, node_list,
             nodes_by_name, inventory, calls, cliError, exitCode, controlLog>>

VARIABLES
    \* ---- scale (cli.py 477-565, aws.py) ----
    nodegroup,       \* the NODEGROUP argument (NoGroup when absent)
    scale_all,       \* --all
    scaleCaptype,    \* -c/--captype (None when absent)
    sizes,           \* [min_size, max_size, desired_size], each <<>> (None) or <<n>>
    scalePc,         \* position inside scale_cmd
    all_names,       \* local `all_names`
    names,           \* local `names`
    info,            \* local `info`: the last get_nodegroup_info result of scale_cmd
    selIdx,          \* position of the --captype selection loop in all_names
    targets,         \* sorted(names), the groups the update loop runs over
    updIdx,          \* position of the update loop in targets
    failed,          \* local `failed`
    outcomes,        \* per group update_nodegroup_scaling was called for: how it ended
    lastUpdate,      \* the last update-nodegroup-config issued, and the describe before it
    describeFailed,  \* the groups for which a describe returned nothing
    awsCalls,        \* external invocations so far
    scaleError,      \* which error ended the command ("none")
    scaleExit        \* exit status once scalePc = "exit"

scaleVars == <<nodegroup, scale_all, scaleCaptype, sizes, scalePc, all_names, names,
               info, selIdx, targets, updIdx, failed, outcomes, lastUpdate,
               describeFailed, awsCalls, scaleError, scaleExit>>

VARIABLES
    \* ---- NodeInfo.from_dict (nodes.py 47-83) ----
    nodeObj,         \* the raw node record `obj`
    nodePc,          \* position inside from_dict
    status_parts,    \* local `status_parts`
    ctype,           \* local `ctype`
    nodeInfo         \* the NodeInfo returned

nodeVars == <<nodeObj, nodePc, status_parts, ctype, nodeInfo>>

VARIABLES
    \* ---- _format_progress (kubectl.py 179-187) ----
    progEvicted,     \* argument `evicted`
    progTotal,       \* argument `total`
    progMsg          \* the message returned

progVars == <<progEvicted, progTotal, progMsg>>

VARIABLES
    \* ---- PodInfo.from_dict on a raw pod record (nodes.py 118-147) ----
    podObj,          \* argument `obj`
    podInfo          \* the PodInfo built from it

rawVars == <<podObj, podInfo>>

notNodes == <<drainVars, podVars, cliVars, scaleVars, progVars, rawVars>>
notProgress == <<drainVars, podVars, cliVars, scaleVars, nodeVars, rawVars>>
notRaw == <<drainVars, podVars, cliVars, scaleVars, nodeVars, progVars>>

----------------------------------------------------------------------------
(* Bounds *)

\* most lines the drain process emits
MaxLines == 3

\* lines the drain process writes where termination is checked
MaxLiveLines == 1

\* most pods in an enumerated pod inventory
MaxPods == 3
\* most managed node groups in the cluster
MaxGroups == 3
\* most entries in status.conditions of a raw node record
MaxConds == 2
\* largest evicted / total count handed to _format_progress
MaxCount == 9
\* most entries in status.containerStatuses of a raw pod record
MaxContainers == 2

----------------------------------------------------------------------------
(* Helpers *)

RECURSIVE SeqToSet(_)
SeqToSet(s) == IF s = <<>> THEN {} ELSE {Head(s)} \cup SeqToSet(Tail(s))

IsPrefix(s, t) == /\ Len(s) <= Len(t)
                  /\ \A i \in 1..Len(s) : s[i] = t[i]

RECURSIVE SelectSeqBy(_, _)
\* the subsequence of lines whose stream is st
SelectSeqBy(s, st) ==
    IF s = <<>> THEN <<>>
    ELSE IF Head(s).stream = st THEN <<Head(s)>> \o SelectSeqBy(Tail(s), st)
         ELSE SelectSeqBy(Tail(s), st)

\* Python's `x or 0` on an int
OrZero(x) == IF x = 0 THEN 0 ELSE x

----------------------------------------------------------------------------
(* Pod inventory items, as far as kubectl.py and nodes.py read them *)

DaemonSetKind == "DaemonSet"

\* one item of `kubectl get pods -A -o json`: metadata.namespace, metadata.name,
\* spec.nodeName and the kinds of metadata.ownerReferences
PodItem(ns, name, node, owners) ==
    [namespace |-> ns, name |-> name, nodeName |-> node, owners |-> owners]

\* any(ref.get("kind") == "DaemonSet" for ref in owner_refs)
OwnedByDaemonSet(owners) == \E i \in 1..Len(owners) : owners[i] = DaemonSetKind

RECURSIVE CountItems(_, _)
\* the counting loop of count_pods_on_nodes
CountItems(items, node_set) ==
    IF items = <<>> THEN 0
    ELSE LET item == Head(items)
             rest == CountItems(Tail(items), node_set)
         IN IF item.nodeName \in node_set
               THEN IF OwnedByDaemonSet(item.owners) THEN rest ELSE rest + 1
               ELSE rest

\* outcomes of the `kubectl get pods -A -o json` subprocess of count_pods_on_nodes
CountReturns == {"nonzero", "empty", "unparseable"}
CountRaises  == {"timeout", "launch_failed"}
CountFailures == CountReturns \cup CountRaises

\* the exception subprocess.run raises for an outcome it does not return from
RunException(outcome) ==
    IF outcome = "timeout" THEN "TimeoutExpired" ELSE "FileNotFoundError"

\* count_pods_on_nodes: [raised |-> exception or "none", count |-> int]
count_pods_on_nodes(wanted, outcome, items) ==
    IF wanted = <<>> THEN [raised |-> "none", count |-> 0]
    ELSE IF outcome \in CountRaises
         THEN [raised |-> RunException(outcome), count |-> 0]
    ELSE IF outcome \in CountReturns THEN [raised |-> "none", count |-> 0]
    ELSE [raised |-> "none", count |-> CountItems(items, SeqToSet(wanted))]

\* the pod inventories the pre-drain count may see
CountInventories ==
    { <<>>,
      <<PodItem(1, 1, 1, <<"ReplicaSet">>), PodItem(1, 2, 1, <<"DaemonSet">>)>>,
      <<PodItem(1, 1, 1, <<>>), PodItem(1, 2, 2, <<"ReplicaSet">>),
        PodItem(2, 1, 1, <<"ReplicaSet">>)>> }

----------------------------------------------------------------------------
(* PodInfo and get_pods_for_nodes (nodes.py) *)

\* PodInfo.from_dict: the fields get_pods_for_nodes reads
PodInfo_from_dict(item) ==
    [namespace |-> item.namespace, name |-> item.name, node |-> item.nodeName,
     is_daemonset |-> OwnedByDaemonSet(item.owners)]

\* a sort key that puts the namespace first
PodSortKey_namespaceFirst(p) == <<p.namespace, p.node, p.name>>

\* key=lambda p: (p.node, p.namespace, p.name)
PodSortKey(p) == <<p.node, p.namespace, p.name>>

\* Python's tuple comparison a <= b on triples
TupleLE(a, b) ==
    \/ a[1] < b[1]
    \/ a[1] = b[1] /\ a[2] < b[2]
    \/ a[1] = b[1] /\ a[2] = b[2] /\ a[3] <= b[3]

RECURSIVE InsertPod(_, _)
\* p placed after every element of the ordered sequence whose key is <= its key
InsertPod(p, acc) ==
    IF acc = <<>> THEN <<p>>
    ELSE IF TupleLE(PodSortKey(Head(acc)), PodSortKey(p))
         THEN <<Head(acc)>> \o InsertPod(p, Tail(acc))
         ELSE <<p>> \o acc

RECURSIVE SortPods(_)
\* pods.sort(key=...): a stable sort
SortPods(s) ==
    IF s = <<>> THEN <<>>
    ELSE InsertPod(s[Len(s)], SortPods(SubSeq(s, 1, Len(s) - 1)))

RECURSIVE FilterPods(_, _, _)
\* the loop of get_pods_for_nodes over data["items"]
FilterPods(items, node_set, include_daemonsets) ==
    IF items = <<>> THEN <<>>
    ELSE LET pod == PodInfo_from_dict(Head(items))
             rest == FilterPods(Tail(items), node_set, include_daemonsets)
         IN IF pod.node \notin node_set THEN rest
            ELSE IF pod.is_daemonset /\ ~include_daemonsets THEN rest
            ELSE <<pod>> \o rest

\* get_pods_for_nodes has not been called
NoCall == [fetch |-> "none"]

\* how get_pods_json / get_nodes_json can end: a parsed document with items,
\* None (non-zero status, empty or unparseable output), a parsed empty document
\* {}, or subprocess.run raising TimeoutExpired
FetchOutcomes == {"ok", "fail", "emptydoc", "timeout"}

\* get_pods_for_nodes(node_names, include_daemonsets) when get_pods_json ends as
\* `fetch` with `items`: [raised, pods, queried]
get_pods_for_nodes(wanted, include_daemonsets, fetch, items) ==
    IF wanted = <<>> THEN [raised |-> "none", pods |-> <<>>, queried |-> FALSE]
    ELSE IF fetch = "timeout"
         THEN [raised |-> "TimeoutExpired", pods |-> <<>>, queried |-> TRUE]
    ELSE IF fetch \in {"fail", "emptydoc"}
         THEN [raised |-> "RuntimeError", pods |-> <<>>, queried |-> TRUE]
    ELSE [raised |-> "none",
          pods |-> SortPods(FilterPods(items, SeqToSet(wanted), include_daemonsets)),
          queried |-> TRUE]

\* name codes used by the enumerated inventories
NameCodes == {1, 2}
OwnerLists == {<<"ReplicaSet">>, <<"DaemonSet">>}

PodItemUniverse ==
    { PodItem(ns, name, node, owners) :
        ns \in NameCodes, name \in NameCodes, node \in NameCodes, owners \in OwnerLists }

\* (namespace, name) is unique within one fetch
UniquePods(items) ==
    \A i, j \in 1..Len(items) :
        (items[i].namespace = items[j].namespace /\ items[i].name = items[j].name)
            => i = j

PodInventories ==
    UNION { { s \in [1..n -> PodItemUniverse] : UniquePods(s) } : n \in 0..MaxPods }

PodRequests == {<<>>, <<1>>, <<2>>, <<2, 1>>}

PodsInit ==
    /\ podItems \in PodInventories
    /\ podArgs \in [node_names : PodRequests, include_daemonsets : BOOLEAN]
    /\ podCall = NoCall

----------------------------------------------------------------------------
(* NodeInfo, get_all_nodes (nodes.py) and _resolve_nodes (cli.py) *)

\* Python's None where a string may stand
None == "<None>"

\* an `is not None` test in place of truthiness
Truthy_notNone(s) == s # None

\* Python truthiness of an Optional[str]
Truthy(s) == s # None /\ s # ""

\* dict.get(key)
Get(d, key) == IF key \in DOMAIN d THEN d[key] ELSE None

KarpenterLabel == "karpenter.sh/capacity-type"
EksCapacityLabel == "eks.amazonaws.com/capacityType"
ComputeTypeLabel == "eks.amazonaws.com/compute-type"
NodegroupLabel == "eks.amazonaws.com/nodegroup"

NoLabels == [k \in {} |-> ""]

\* lowercasing without the replacement of "_"
LowerHyphen_lowerOnly(s) ==
    CASE s = "ON_DEMAND" -> "on_demand"
      [] s = "SPOT" -> "spot"
      [] s = "CAPACITY_BLOCK" -> "capacity_block"
      [] OTHER -> s

\* s.replace("_", "-").lower() on the capacity values AWS uses
LowerHyphen(s) ==
    CASE s = "ON_DEMAND" -> "on-demand"
      [] s = "SPOT" -> "spot"
      [] s = "CAPACITY_BLOCK" -> "capacity-block"
      [] OTHER -> s

\* a cascade that stops at a label that is present, empty or not
_capacity_type_presentWins(labels) ==
    IF KarpenterLabel \in DOMAIN labels THEN labels[KarpenterLabel]
    ELSE IF EksCapacityLabel \in DOMAIN labels
         THEN LowerHyphen(labels[EksCapacityLabel])
    ELSE IF ComputeTypeLabel \in DOMAIN labels THEN labels[ComputeTypeLabel]
    ELSE ""

\* _capacity_type(labels)
_capacity_type(labels) ==
    LET k == Get(labels, KarpenterLabel)
        e == Get(labels, EksCapacityLabel)
        c == Get(labels, ComputeTypeLabel)
    IN IF Truthy(k) THEN k
       ELSE IF Truthy(e) THEN LowerHyphen(e)
       ELSE IF Truthy(c) THEN c ELSE ""

\* membership by the mere presence of the label
_is_in_nodegroup_present(labels) == NodegroupLabel \in DOMAIN labels

\* _is_in_nodegroup(labels)
_is_in_nodegroup(labels) == Truthy(Get(labels, NodegroupLabel))

\* one item of `kubectl get nodes -o json`: metadata.name and metadata.labels
NodeItem(name, labels) == [name |-> name, labels |-> labels]

\* NodeInfo.from_dict: the fields the commands read
NodeInfo_from_dict(item) ==
    LET tag == _capacity_type(item.labels)
    IN [name |-> item.name,
        captype |-> IF _is_in_nodegroup(item.labels) /\ tag # ""
                    THEN "NG/" \o tag
                    ELSE IF tag # "" THEN tag ELSE "-"]

\* a get_all_nodes that answers a failed fetch with an empty list
get_all_nodes_swallow(fetch, items) ==
    IF fetch # "ok" THEN [raised |-> "none", nodes |-> <<>>]
    ELSE [raised |-> "none",
          nodes |-> [i \in 1..Len(items) |-> NodeInfo_from_dict(items[i])]]

\* get_all_nodes() when get_nodes_json ends as `fetch` with `items`
get_all_nodes(fetch, items) ==
    IF fetch = "timeout" THEN [raised |-> "TimeoutExpired", nodes |-> <<>>]
    ELSE IF fetch \in {"fail", "emptydoc"}
         THEN [raised |-> "RuntimeError", nodes |-> <<>>]
    ELSE [raised |-> "none",
          nodes |-> [i \in 1..Len(items) |-> NodeInfo_from_dict(items[i])]]

\* a comparison that takes a node group node for its bare capacity type
CaptypeMatches_ignoresPrefix(node_captype, filter) ==
    node_captype = filter \/ node_captype = "NG/" \o filter

\* if n.captype == captype
CaptypeMatches(node_captype, filter) == node_captype = filter

\* _resolve_nodes: the set `result` once the inventory (if asked for) is there
ResolvedSet(args, filter, all_nodes) ==
    (IF args # <<>> THEN SeqToSet(args) ELSE {})
    \cup (IF Truthy(filter)
          THEN { all_nodes[i].name : i \in
                   { k \in 1..Len(all_nodes) :
                       CaptypeMatches(all_nodes[k].captype, filter) } }
          ELSE {})

\* list(result): the elements of a set in some order
ListsOf(S) ==
    { s \in [1..Cardinality(S) -> S] : \A i, j \in 1..Cardinality(S) :
                                          s[i] = s[j] => i = j }

\* a check that lets every name pass
UnknownNodes_none(list, known) == <<>>

\* unknown = [n for n in node_list if n not in nodes_by_name]
UnknownNodes(list, known) == SelectSeq(list, LAMBDA n : n \notin known)

\* a check that never stops the command
NoTargets_never(list) == FALSE

\* if not node_list:
NoTargets(list) == list = <<>>

----------------------------------------------------------------------------
(* The drain process output and the progress line *)

\* A line of the merged stdout/stderr stream.  hasPod: the line contains "pod/";
\* marker: how " evicted" occurs in it ("none", "lower", "upper"); confirms: the
\* process wrote the line because it evicted a pod.
Lines ==
    { [txt |-> "pod/a evicted", stream |-> "out", hasPod |-> TRUE, marker |-> "lower",
       confirms |-> TRUE],
      [txt |-> "node/n1 cordoned", stream |-> "out", hasPod |-> FALSE, marker |-> "none",
       confirms |-> FALSE],
      [txt |-> "Warning: ignoring DaemonSet-managed Pods", stream |-> "err",
       hasPod |-> FALSE, marker |-> "none", confirms |-> FALSE],
      [txt |-> "error when evicting pods/b: webhook denied: pod/b EVICTED too recently",
       stream |-> "err", hasPod |-> TRUE, marker |-> "upper", confirms |-> FALSE] }

\* a match that wants the marker in lower case
IsEviction_caseSensitive(line) == line.hasPod /\ line.marker = "lower"

\* "pod/" in line and " evicted" in line.lower()
IsEviction(line) == line.hasPod /\ line.marker # "none"

\* exit codes of kubectl drain
ExitCodes == {0, 1}
\* exit code of a process killed by SIGTERM
SigTerm == -15

Width == 30

\* len(bar.ljust(width)): padded up to width, never cut
Ljust(len) == IF len < Width THEN Width ELSE len

\* a bar scaled to evicted / total without the min(1.0, ...)
_format_progress_unclamped(ev, tot) ==
    IF tot <= 0
    THEN [bar |-> FALSE, filled |-> 0, head |-> 0, cells |-> 0,
          evicted |-> ev, total |-> tot]
    ELSE LET filled == (Width * ev) \div tot
             head == IF filled < Width /\ ev < tot THEN 1 ELSE 0
         IN [bar |-> TRUE, filled |-> filled, head |-> head,
             cells |-> Ljust(filled + head), evicted |-> ev, total |-> tot]

\* _format_progress(evicted, total, width=30): the parts of the rendered string
\* (bar: whether a bar is shown; filled: "=" cells; head: ">" cells; cells: width
\* of the bar between the brackets; evicted, total: the counts printed)
_format_progress(ev, tot) ==
    IF tot <= 0
    THEN [bar |-> FALSE, filled |-> 0, head |-> 0, cells |-> 0,
          evicted |-> ev, total |-> tot]
    ELSE LET capped == IF ev < tot THEN ev ELSE tot
             filled == (Width * capped) \div tot
             head == IF filled < Width /\ ev < tot THEN 1 ELSE 0
         IN [bar |-> TRUE, filled |-> filled, head |-> head,
             cells |-> Ljust(filled + head), evicted |-> ev, total |-> tot]

\* the progress line on stderr: nothing yet, a rendered message, or blanked
NoDisplay == [kind |-> "none"]
Shown(msg) == [kind |-> "progress", msg |-> msg]
Cleared == [kind |-> "cleared"]

RECURSIVE Digits(_)
\* len(str(n)) for n >= 0
Digits(n) == IF n < 10 THEN 1 ELSE 1 + Digits(n \div 10)

\* len(msg): "Draining... (evicting pods)" is 27 characters; a bar message is
\* "Draining... [" (13), the bar, "] " (2), the counts around "/" and
\* " pods evicted" (13)
MsgLen(msg) ==
    IF ~msg.bar THEN 27
    ELSE 13 + msg.cells + 2 + Digits(msg.evicted) + 1 + Digits(msg.total) + 13

\* the blanks written by the finally block: " " * 60
ClearWidth == 60

\* the line after "\r" + " " * 60 + "\r": blank, or the characters of the last
\* message that stood beyond the blanks
Wiped(d) ==
    IF d.kind = "progress" /\ MsgLen(d.msg) > ClearWidth
    THEN [kind |-> "residue", left |-> MsgLen(d.msg) - ClearWidth]
    ELSE Cleared

\* drain_nodes has not returned
NoReturn == [returned |-> FALSE]

\* a variant that drops the last captured line
DrainResult_dropsLast(rc, lines) ==
    [rc |-> OrZero(rc),
     out |-> IF lines = <<>> THEN <<>> ELSE SubSeq(lines, 1, Len(lines) - 1)]

\* return proc.returncode or 0, "".join(output_lines)
DrainResult(rc, lines) == [rc |-> OrZero(rc), out |-> lines]

\* non-progress mode: output = result.stderr if result.stderr else result.stdout
SyncResult(rc, lines) ==
    LET err == SelectSeqBy(lines, "err")
    IN [rc |-> rc, out |-> IF err # <<>> THEN err ELSE SelectSeqBy(lines, "out")]

----------------------------------------------------------------------------
(* drain_nodes *)

DrainArgs == {<<>>, <<1>>, <<1, 2>>}

DrainInit ==
    /\ node_names \in DrainArgs
    /\ show_progress \in BOOLEAN
    /\ pc = "entry"
    /\ countOutcome = "none"
    /\ total = 0
    /\ evicted = 0
    /\ output_lines = <<>>
    /\ rpc = "idle"
    /\ readerJoined = FALSE
    /\ procState = "none"
    /\ returncode = 0
    /\ emitted = <<>>
    /\ termSent = FALSE
    /\ interruptedAt = "none"
    /\ exc = "none"
    /\ display = NoDisplay
    /\ ret = NoReturn
    /\ launches = <<>>

DrainIdle ==
    /\ node_names = <<>>
    /\ show_progress = FALSE
    /\ pc = "idle"
    /\ countOutcome = "none"
    /\ total = 0
    /\ evicted = 0
    /\ output_lines = <<>>
    /\ rpc = "idle"
    /\ readerJoined = FALSE
    /\ procState = "none"
    /\ returncode = 0
    /\ emitted = <<>>
    /\ termSent = FALSE
    /\ interruptedAt = "none"
    /\ exc = "none"
    /\ display = NoDisplay
    /\ ret = NoReturn
    /\ launches = <<>>

PodsIdle ==
    /\ podItems = <<>>
    /\ podArgs = [node_names |-> <<>>, include_daemonsets |-> FALSE]
    /\ podCall = NoCall

notDrain == <<podVars, cliVars, scaleVars, nodeVars, progVars, rawVars>>

\* if not node_names: return 0, ""
DrainEmpty ==
    /\ pc = "entry"
    /\ node_names = <<>>
    /\ ret' = [rc |-> 0, out |-> <<>>]
    /\ pc' = "returned"
    /\ UNCHANGED <<node_names, show_progress, launches, countOutcome, total, evicted,
                   output_lines, rpc, readerJoined, procState, returncode,
                   emitted, termSent, interruptedAt, exc, display>>
    /\ UNCHANGED notDrain

\* if not show_progress: result = run_kubectl(args, timeout=600) -- the process starts
SyncRun ==
    /\ pc = "entry"
    /\ node_names # <<>>
    /\ ~show_progress
    /\ procState' = "running"
    /\ pc' = "sync"
    /\ UNCHANGED <<node_names, show_progress, launches, countOutcome, total, evicted,
                   output_lines, rpc, readerJoined, returncode, emitted,
                   termSent, interruptedAt, exc, display, ret>>
    /\ UNCHANGED notDrain

\* run_kubectl returns once the process has exited
SyncReturn ==
    /\ pc = "sync"
    /\ procState = "exited"
    /\ ret' = SyncResult(returncode, emitted)
    /\ pc' = "returned"
    /\ UNCHANGED <<node_names, show_progress, launches, countOutcome, total, evicted,
                   output_lines, rpc, readerJoined, procState, returncode,
                   emitted, termSent, interruptedAt, exc, display>>
    /\ UNCHANGED notDrain

\* run_kubectl(args, timeout=600) gives up: subprocess.run kills the process and raises
SyncTimeout ==
    /\ pc = "sync"
    /\ procState = "running"
    /\ procState' = "exited"
    /\ returncode' = -9
    /\ exc' = "TimeoutExpired"
    /\ pc' = "raised"
    /\ UNCHANGED <<node_names, show_progress, launches, countOutcome, total, evicted,
                   output_lines, rpc, readerJoined, emitted, termSent,
                   interruptedAt, display, ret>>
    /\ UNCHANGED notDrain

\* total = count_pods_on_nodes(node_names); evicted = 0; output_lines = []
CountPods ==
    /\ pc = "entry"
    /\ node_names # <<>>
    /\ show_progress
    /\ \E outcome \in {"ok"} \cup CountFailures, items \in CountInventories :
         LET r == count_pods_on_nodes(node_names, outcome, items)
         IN /\ countOutcome' = outcome
            /\ IF r.raised # "none"
               THEN /\ exc' = r.raised
                    /\ pc' = "raised"
                    /\ UNCHANGED total
               ELSE /\ total' = r.count
                    /\ pc' = "launch"
                    /\ UNCHANGED exc
    /\ UNCHANGED <<node_names, show_progress, launches, evicted, output_lines, rpc,
                   readerJoined, procState, returncode, emitted, termSent,
                   interruptedAt, display, ret>>
    /\ UNCHANGED notDrain

\* proc = subprocess.Popen(cmd, stdout=PIPE, stderr=STDOUT, text=True)
Launch ==
    /\ pc = "launch"
    /\ launches' = Append(launches, [nodes |-> node_names, stderr |-> "STDOUT"])
    /\ procState' = "running"
    /\ pc' = "start_reader"
    /\ UNCHANGED <<node_names, show_progress, countOutcome, total, evicted,
                   output_lines, rpc, readerJoined, returncode, emitted,
                   termSent, interruptedAt, exc, display, ret>>
    /\ UNCHANGED notDrain

\* reader = threading.Thread(target=read_output); reader.start()
StartReader ==
    /\ pc = "start_reader"
    /\ rpc' = "read"
    /\ pc' = "poll"
    /\ UNCHANGED <<node_names, show_progress, launches, countOutcome, total, evicted,
                   output_lines, readerJoined, procState, returncode, emitted,
                   termSent, interruptedAt, exc, display, ret>>
    /\ UNCHANGED notDrain

\* while proc.poll() is None:
Poll ==
    /\ pc = "poll"
    /\ pc' = IF procState = "running" THEN "join" ELSE "join_final"
    /\ UNCHANGED <<node_names, show_progress, launches, countOutcome, total, evicted,
                   output_lines, rpc, readerJoined, procState, returncode,
                   emitted, termSent, interruptedAt, exc, display, ret>>
    /\ UNCHANGED notDrain

\* reader.join(timeout=0.3): returns when the reader ended or 0.3 s passed
JoinShort ==
    /\ pc = "join"
    /\ pc' = "render"
    /\ UNCHANGED <<node_names, show_progress, launches, countOutcome, total, evicted,
                   output_lines, rpc, readerJoined, procState, returncode,
                   emitted, termSent, interruptedAt, exc, display, ret>>
    /\ UNCHANGED notDrain

\* a render that advances the counter it shows
Render_counts ==
    /\ pc = "render"
    /\ evicted' = evicted + 1
    /\ display' = Shown(_format_progress(evicted + 1, total))
    /\ pc' = "poll"
    /\ UNCHANGED <<node_names, show_progress, launches, countOutcome, total,
                   output_lines, rpc, readerJoined, procState, returncode,
                   emitted, termSent, interruptedAt, exc, ret>>
    /\ UNCHANGED notDrain

\* msg = _format_progress(evicted, total); sys.stderr.write(f"\r{msg}    ")
Render ==
    /\ pc = "render"
    /\ display' = Shown(_format_progress(evicted, total))
    /\ pc' = "poll"
    /\ UNCHANGED <<node_names, show_progress, launches, countOutcome, total, evicted,
                   output_lines, rpc, readerJoined, procState, returncode,
                   emitted, termSent, interruptedAt, exc, ret>>
    /\ UNCHANGED notDrain

\* a join without timeout: it returns only when the reader has finished
JoinFinal_unbounded ==
    /\ pc = "join_final"
    /\ rpc = "done"
    /\ readerJoined' = TRUE
    /\ pc' = "clear"
    /\ UNCHANGED <<node_names, show_progress, launches, countOutcome, total, evicted,
                   output_lines, rpc, procState, returncode, emitted, termSent,
                   interruptedAt, exc, display, ret>>
    /\ UNCHANGED notDrain

\* reader.join(timeout=2): returns when the reader ended or 2 s passed
JoinFinal ==
    /\ pc = "join_final"
    /\ readerJoined' = (rpc = "done")
    /\ pc' = "clear"
    /\ UNCHANGED <<node_names, show_progress, launches, countOutcome, total, evicted,
                   output_lines, rpc, procState, returncode, emitted, termSent,
                   interruptedAt, exc, display, ret>>
    /\ UNCHANGED notDrain

\* finally: sys.stderr.write("\r" + " " * 60 + "\r")   (no exception in flight)
Clear ==
    /\ pc = "clear"
    /\ display' = Wiped(display)
    /\ pc' = "result"
    /\ UNCHANGED <<node_names, show_progress, launches, countOutcome, total, evicted,
                   output_lines, rpc, readerJoined, procState, returncode,
                   emitted, termSent, interruptedAt, exc, ret>>
    /\ UNCHANGED notDrain

\* output = "".join(output_lines); return proc.returncode or 0, output
Return ==
    /\ pc = "result"
    /\ ret' = DrainResult(returncode, output_lines)
    /\ pc' = "returned"
    /\ UNCHANGED <<node_names, show_progress, launches, countOutcome, total, evicted,
                   output_lines, rpc, readerJoined, procState, returncode,
                   emitted, termSent, interruptedAt, exc, display>>
    /\ UNCHANGED notDrain

\* a KeyboardInterrupt (or any Exception) raised inside the try block
Interrupt ==
    /\ pc \in {"poll", "join", "render", "join_final"}
    /\ interruptedAt' = procState
    /\ exc' = "KeyboardInterrupt"
    /\ pc' = "terminate"
    /\ UNCHANGED <<node_names, show_progress, launches, countOutcome, total, evicted,
                   output_lines, rpc, readerJoined, procState, returncode,
                   emitted, termSent, display, ret>>
    /\ UNCHANGED notDrain

\* except (KeyboardInterrupt, Exception): proc.terminate()
Terminate ==
    /\ pc = "terminate"
    /\ termSent' = TRUE
    /\ pc' = "wait"
    /\ UNCHANGED <<node_names, show_progress, launches, countOutcome, total, evicted,
                   output_lines, rpc, readerJoined, procState, returncode,
                   emitted, interruptedAt, exc, display, ret>>
    /\ UNCHANGED notDrain

\* proc.wait(timeout=10) returns: the process has exited; then `raise`
WaitExited ==
    /\ pc = "wait"
    /\ procState = "exited"
    /\ pc' = "finally"
    /\ UNCHANGED <<node_names, show_progress, launches, countOutcome, total, evicted,
                   output_lines, rpc, readerJoined, procState, returncode,
                   emitted, termSent, interruptedAt, exc, display, ret>>
    /\ UNCHANGED notDrain

\* proc.wait(timeout=10) raises TimeoutExpired: the process is still running
WaitTimeout ==
    /\ pc = "wait"
    /\ procState = "running"
    /\ exc' = "TimeoutExpired"
    /\ pc' = "finally"
    /\ UNCHANGED <<node_names, show_progress, launches, countOutcome, total, evicted,
                   output_lines, rpc, readerJoined, procState, returncode,
                   emitted, termSent, interruptedAt, display, ret>>
    /\ UNCHANGED notDrain

\* finally: sys.stderr.write("\r" + " " * 60 + "\r")   (exception in flight)
ClearRaise ==
    /\ pc = "finally"
    /\ display' = Wiped(display)
    /\ pc' = "raised"
    /\ UNCHANGED <<node_names, show_progress, launches, countOutcome, total, evicted,
                   output_lines, rpc, readerJoined, procState, returncode,
                   emitted, termSent, interruptedAt, exc, ret>>
    /\ UNCHANGED notDrain

\* the kubectl drain process writes one more line
ProcEmit ==
    /\ procState = "running"
    /\ Len(emitted) < MaxLines
    /\ \E line \in Lines : emitted' = Append(emitted, line)
    /\ UNCHANGED <<node_names, show_progress, launches, pc, countOutcome, total, evicted,
                   output_lines, rpc, readerJoined, procState, returncode,
                   termSent, interruptedAt, exc, display, ret>>
    /\ UNCHANGED notDrain

\* the kubectl drain process exits, by itself or on the SIGTERM it was sent
ProcExit ==
    /\ procState = "running"
    /\ pc # "raised"
    /\ \E code \in ExitCodes \cup (IF termSent THEN {SigTerm} ELSE {}) :
         returncode' = code
    /\ procState' = "exited"
    /\ UNCHANGED <<node_names, show_progress, launches, pc, countOutcome, total, evicted,
                   output_lines, rpc, readerJoined, emitted, termSent,
                   interruptedAt, exc, display, ret>>
    /\ UNCHANGED notDrain

\* read_output: for line in proc.stdout: output_lines.append(line)
ReaderAppend ==
    /\ rpc = "read"
    /\ Len(output_lines) < Len(emitted)
    /\ output_lines' = Append(output_lines, emitted[Len(output_lines) + 1])
    /\ rpc' = "match"
    /\ UNCHANGED <<node_names, show_progress, launches, pc, countOutcome, total, evicted,
                   readerJoined, procState, returncode, emitted, termSent,
                   interruptedAt, exc, display, ret>>
    /\ UNCHANGED notDrain

\* read_output: if "pod/" in line and " evicted" in line.lower(): evicted += 1
ReaderMatch ==
    /\ rpc = "match"
    /\ evicted' = IF IsEviction(output_lines[Len(output_lines)])
                  THEN evicted + 1 ELSE evicted
    /\ rpc' = "read"
    /\ UNCHANGED <<node_names, show_progress, launches, pc, countOutcome, total,
                   output_lines, readerJoined, procState, returncode, emitted,
                   termSent, interruptedAt, exc, display, ret>>
    /\ UNCHANGED notDrain

\* read_output: the for loop ends at end of stream
ReaderEof ==
    /\ rpc = "read"
    /\ procState = "exited"
    /\ Len(output_lines) = Len(emitted)
    /\ rpc' = "done"
    /\ UNCHANGED <<node_names, show_progress, launches, pc, countOutcome, total, evicted,
                   output_lines, readerJoined, procState, returncode, emitted,
                   termSent, interruptedAt, exc, display, ret>>
    /\ UNCHANGED notDrain

\* the steps of the calling thread from the polling loop on (kubectl.py 251-267)
MainThread ==
    \/ Poll \/ JoinShort \/ Render \/ JoinFinal \/ Clear \/ Return
    \/ Terminate \/ WaitExited \/ WaitTimeout \/ ClearRaise

DrainNext ==
    \/ DrainEmpty \/ SyncRun \/ SyncReturn \/ SyncTimeout
    \/ CountPods \/ Launch \/ StartReader
    \/ Poll \/ JoinShort \/ Render \/ JoinFinal \/ Clear \/ Return
    \/ Interrupt \/ Terminate \/ WaitExited \/ WaitTimeout \/ ClearRaise
    \/ ProcEmit \/ ProcExit
    \/ ReaderAppend \/ ReaderMatch \/ ReaderEof

\* the same steps for a process that writes at most MaxLiveLines lines
DrainShortNext ==
    \/ DrainEmpty \/ SyncRun \/ SyncReturn \/ SyncTimeout
    \/ CountPods \/ Launch \/ StartReader
    \/ MainThread
    \/ Interrupt
    \/ (Len(emitted) < MaxLiveLines /\ ProcEmit) \/ ProcExit
    \/ ReaderAppend \/ ReaderMatch \/ ReaderEof

----------------------------------------------------------------------------
(* One call of get_pods_for_nodes *)

notPods == <<drainVars, cliVars, scaleVars, nodeVars, progVars, rawVars>>

CallGetPods ==
    /\ podCall = NoCall
    /\ \E fetch \in FetchOutcomes :
         podCall' = [fetch |-> fetch] @@
                    get_pods_for_nodes(podArgs.node_names, podArgs.include_daemonsets,
                                       fetch, podItems)
    /\ UNCHANGED <<podItems, podArgs>>
    /\ UNCHANGED notPods

PodsNext == CallGetPods

----------------------------------------------------------------------------
(* The node commands of cli.py *)

Commands == {"pods", "cordon", "uncordon", "drain", "cordon-drain"}

\* how a kubectl cordon / uncordon / drain run ends: an exit status, or
\* subprocess.run raising TimeoutExpired
RunOutcomes ==
    { [raised |-> "none", rc |-> 0], [raised |-> "none", rc |-> 1],
      [raised |-> "none", rc |-> 2], [raised |-> "TimeoutExpired", rc |-> 0] }

\* cordon_nodes / uncordon_nodes (kubectl.py): nothing is run for no names
cordon_nodes(wanted, run) ==
    IF wanted = <<>> THEN [raised |-> "none", rc |-> 0] ELSE run

uncordon_nodes(wanted, run) ==
    IF wanted = <<>> THEN [raised |-> "none", rc |-> 0] ELSE run

NodeInventories ==
    { <<>>,
      <<NodeItem(1, KarpenterLabel :> "spot"),
        NodeItem(2, (EksCapacityLabel :> "ON_DEMAND") @@ (NodegroupLabel :> "main")),
        NodeItem(3, (EksCapacityLabel :> "SPOT") @@ (NodegroupLabel :> "burst"))>>,
      <<NodeItem(1, NoLabels), NodeItem(3, KarpenterLabel :> "spot")>> }

NodeArgs == {<<>>, <<1>>, <<1, 1, 2>>, <<4>>}
CaptypeArgs == {None, "", "spot", "NG/spot", "SPOT", "fargate"}

NoCalls == [get_nodes |-> 0, get_pods |-> 0, cordon |-> 0, uncordon |-> 0, drain |-> 0]
NotFetched == [fetched |-> FALSE, names |-> {}]
\* get_all_nodes has not been called
NoInventory == [at |-> "none"]

CliInit ==
    /\ cmd \in Commands
    /\ node_args \in NodeArgs
    /\ captype \in CaptypeArgs
    /\ clusterNodes \in NodeInventories
    /\ cliPc = "start"
    /\ resolved = FALSE
    /\ node_list = <<>>
    /\ nodes_by_name = NotFetched
    /\ inventory = NoInventory
    /\ calls = NoCalls
    /\ cliError = "none"
    /\ exitCode = 0
    /\ controlLog = <<>>

CliIdle ==
    /\ cmd = "none"
    /\ node_args = <<>>
    /\ captype = None
    /\ clusterNodes = <<>>
    /\ cliPc = "idle"
    /\ resolved = FALSE
    /\ node_list = <<>>
    /\ nodes_by_name = NotFetched
    /\ inventory = NoInventory
    /\ calls = NoCalls
    /\ cliError = "none"
    /\ exitCode = 0
    /\ controlLog = <<>>

notCli == <<drainVars, podVars, scaleVars, nodeVars, progVars, rawVars>>

\* sys.exit(code) after printing the message `err` stands for; an exception no
\* handler catches ends the run with a traceback and status 1
Exit(err, code) ==
    /\ cliError' = err
    /\ exitCode' = code
    /\ cliPc' = "exit"

ErrorOf(raised) == IF raised = "RuntimeError" THEN "query_error" ELSE "traceback"

\* node_list = _resolve_nodes(nodes, captype)
ResolveNodes ==
    /\ cliPc = "start"
    /\ IF Truthy(captype)
       THEN \E fetch \in FetchOutcomes :
              LET r == get_all_nodes(fetch, clusterNodes)
              IN /\ calls' = [calls EXCEPT !.get_nodes = @ + 1]
                 /\ inventory' = [at |-> "resolve", fetch |-> fetch] @@ r
                 /\ IF r.raised # "none"
                    THEN /\ Exit(ErrorOf(r.raised), 1)
                         /\ UNCHANGED <<resolved, node_list>>
                    ELSE /\ \E lst \in ListsOf(ResolvedSet(node_args, captype, r.nodes)) :
                              node_list' = lst
                         /\ resolved' = TRUE
                         /\ cliPc' = "resolved"
                         /\ UNCHANGED <<cliError, exitCode>>
       ELSE /\ \E lst \in ListsOf(ResolvedSet(node_args, captype, <<>>)) :
                 node_list' = lst
            /\ resolved' = TRUE
            /\ cliPc' = "resolved"
            /\ UNCHANGED <<inventory, calls, cliError, exitCode>>
    /\ UNCHANGED <<cmd, node_args, captype, clusterNodes, nodes_by_name,
                   controlLog>>
    /\ UNCHANGED notCli

\* if not node_list: click.echo("No nodes specified. ..."); sys.exit(1)
ExitNoNodes ==
    /\ cliPc = "resolved"
    /\ NoTargets(node_list)
    /\ Exit("no_nodes", 1)
    /\ UNCHANGED <<cmd, node_args, captype, clusterNodes, resolved, node_list,
                   nodes_by_name, inventory, calls, controlLog>>
    /\ UNCHANGED notCli

\* pods_cmd: all_nodes = get_all_nodes(); nodes_by_name = ...; the unknown check
PodsGetAllNodes ==
    /\ cliPc = "resolved"
    /\ cmd = "pods"
    /\ ~NoTargets(node_list)
    /\ \E fetch \in FetchOutcomes :
         LET r == get_all_nodes(fetch, clusterNodes)
             known == { r.nodes[i].name : i \in 1..Len(r.nodes) }
         IN /\ calls' = [calls EXCEPT !.get_nodes = @ + 1]
            /\ inventory' = [at |-> "pods", fetch |-> fetch] @@ r
            /\ IF r.raised # "none"
               THEN /\ Exit(ErrorOf(r.raised), 1)
                    /\ UNCHANGED nodes_by_name
               ELSE /\ nodes_by_name' = [fetched |-> TRUE, names |-> known]
                    /\ IF UnknownNodes(node_list, known) # <<>>
                       THEN Exit("unknown_node", 1)
                       ELSE /\ cliPc' = "get_pods"
                            /\ UNCHANGED <<cliError, exitCode>>
    /\ UNCHANGED <<cmd, node_args, captype, clusterNodes, resolved, node_list,
                   controlLog>>
    /\ UNCHANGED notCli

\* pods_cmd: pods = get_pods_for_nodes(node_list, include_daemonsets=...); print
PodsGetPods ==
    /\ cliPc = "get_pods"
    /\ \E fetch \in FetchOutcomes, items \in CountInventories, inc \in BOOLEAN :
         LET r == get_pods_for_nodes(node_list, inc, fetch, items)
         IN /\ calls' = [calls EXCEPT !.get_pods = @ + 1]
            /\ IF r.raised # "none"
               THEN Exit(ErrorOf(r.raised), 1)
               ELSE Exit("none", 0)
    /\ UNCHANGED <<cmd, node_args, captype, clusterNodes, resolved, node_list,
                   nodes_by_name, inventory, controlLog>>
    /\ UNCHANGED notCli

\* one entry of controlLog
Logged(op, wanted, r) ==
    [op |-> op, nodes |-> wanted, raised |-> r.raised, rc |-> r.rc]

\* a cordon step after which the drain starts whatever the cordon returned
AfterCordon_ignoresStatus(command, rc) == command = "cordon"

\* the command ends after the cordon: cordon's sys.exit(rc), and cordon_drain's
\* `if rc != 0: sys.exit(rc)`
AfterCordon(command, rc) == command = "cordon" \/ rc # 0

\* cordon, cordon_drain: rc, out = cordon_nodes(node_list)
Cordon ==
    /\ cliPc = "resolved"
    /\ cmd \in {"cordon", "cordon-drain"}
    /\ ~NoTargets(node_list)
    /\ \E run \in RunOutcomes :
         LET r == cordon_nodes(node_list, run)
         IN /\ calls' = [calls EXCEPT !.cordon = @ + 1]
            /\ controlLog' = Append(controlLog, Logged("cordon", node_list, r))
            /\ IF r.raised # "none" THEN Exit("traceback", 1)
               ELSE IF AfterCordon(cmd, r.rc)
                    THEN Exit(IF r.rc # 0 THEN "control_failure" ELSE "none", r.rc)
               ELSE /\ cliPc' = "drain"
                    /\ UNCHANGED <<cliError, exitCode>>
    /\ UNCHANGED <<cmd, node_args, captype, clusterNodes, resolved, node_list,
                   nodes_by_name, inventory>>
    /\ UNCHANGED notCli

\* uncordon: rc, out = uncordon_nodes(node_list); sys.exit(rc)
Uncordon ==
    /\ cliPc = "resolved"
    /\ cmd = "uncordon"
    /\ ~NoTargets(node_list)
    /\ \E run \in RunOutcomes :
         LET r == uncordon_nodes(node_list, run)
         IN /\ calls' = [calls EXCEPT !.uncordon = @ + 1]
            /\ controlLog' = Append(controlLog, Logged("uncordon", node_list, r))
            /\ IF r.raised # "none" THEN Exit("traceback", 1)
               ELSE Exit(IF r.rc # 0 THEN "control_failure" ELSE "none", r.rc)
    /\ UNCHANGED <<cmd, node_args, captype, clusterNodes, resolved, node_list,
                   nodes_by_name, inventory>>
    /\ UNCHANGED notCli

\* drain, cordon_drain: rc, out = drain_nodes(node_list, ...); sys.exit(rc)
\* (drain_nodes itself is SpecDrain; here only how it ends)
Drain ==
    /\ \/ cliPc = "resolved" /\ cmd = "drain" /\ ~NoTargets(node_list)
       \/ cliPc = "drain"
    /\ \E run \in RunOutcomes :
         /\ calls' = [calls EXCEPT !.drain = @ + 1]
         /\ controlLog' = Append(controlLog, Logged("drain", node_list, run))
         /\ IF run.raised # "none" THEN Exit("traceback", 1)
            ELSE Exit(IF run.rc # 0 THEN "control_failure" ELSE "none", run.rc)
    /\ UNCHANGED <<cmd, node_args, captype, clusterNodes, resolved, node_list,
                   nodes_by_name, inventory>>
    /\ UNCHANGED notCli

CliNext ==
    \/ ResolveNodes \/ ExitNoNodes
    \/ PodsGetAllNodes \/ PodsGetPods
    \/ Cordon \/ Uncordon \/ Drain

----------------------------------------------------------------------------
(* aws.py: node group description and scaling update *)

\* what `aws eks describe-nodegroup` reports for a group at some moment
GroupConfigs ==
    { [capacityType |-> "SPOT", minSize |-> 1, maxSize |-> 4, desiredSize |-> 2],
      [capacityType |-> "SPOT", minSize |-> 2, maxSize |-> 6, desiredSize |-> 3],
      [capacityType |-> "ON_DEMAND", minSize |-> 0, maxSize |-> 5, desiredSize |-> 1] }

\* how a describe-nodegroup run ends: None (non-zero status, empty or unparseable
\* output), TimeoutExpired raised by subprocess.run, or a description
DescribeOutcomes ==
    { [kind |-> "fail"], [kind |-> "timeout"] }
    \cup { [kind |-> "ok", cfg |-> c] : c \in GroupConfigs }

NoInfo == [found |-> FALSE]

\* get_nodegroup_info: [raised, info]
get_nodegroup_info(d) ==
    IF d.kind = "timeout" THEN [raised |-> "TimeoutExpired", info |-> NoInfo]
    ELSE IF d.kind = "fail" THEN [raised |-> "none", info |-> NoInfo]
    ELSE [raised |-> "none",
          info |-> [found |-> TRUE,
                    capacity_type |-> LowerHyphen(d.cfg.capacityType),
                    min_size |-> d.cfg.minSize,
                    max_size |-> d.cfg.maxSize,
                    desired_size |-> d.cfg.desiredSize]]

\* a merge that takes a supplied 0 for "not supplied"
Merged_truthy(opt, current) == IF opt # <<>> /\ opt[1] # 0 THEN opt[1] ELSE current

\* x if x is not None else current.x
Merged(opt, current) == IF opt # <<>> THEN opt[1] ELSE current

\* how an update-nodegroup-config run ends
UpdateOutcomes == RunOutcomes

NoUpdate == [issued |-> FALSE]

\* update_nodegroup_scaling(cluster, ng, min_size=, max_size=, desired_size=) when
\* its describe ends as d and its update run as u:
\* [raised, rc, describes, update]
update_nodegroup_scaling(ng, sz, d, u) ==
    LET cur == get_nodegroup_info(d)
    IN IF cur.raised # "none"
       THEN [raised |-> cur.raised, rc |-> 1, update |-> NoUpdate]
       ELSE IF ~cur.info.found
       THEN [raised |-> "none", rc |-> 1, update |-> NoUpdate]
       ELSE [raised |-> u.raised, rc |-> u.rc,
             update |-> [issued |-> TRUE, ng |-> ng, current |-> cur.info,
                         minSize |-> Merged(sz.min_size, cur.info.min_size),
                         maxSize |-> Merged(sz.max_size, cur.info.max_size),
                         desiredSize |-> Merged(sz.desired_size, cur.info.desired_size)]]

RECURSIVE InsertName(_, _)
InsertName(n, acc) ==
    IF acc = <<>> THEN <<n>>
    ELSE IF Head(acc) <= n THEN <<Head(acc)>> \o InsertName(n, Tail(acc))
         ELSE <<n>> \o acc

RECURSIVE sorted(_)
\* sorted(names)
sorted(s) ==
    IF s = <<>> THEN <<>> ELSE InsertName(s[Len(s)], sorted(SubSeq(s, 1, Len(s) - 1)))

----------------------------------------------------------------------------
(* scale_cmd *)

NoGroup == 0
GroupNames == 1..MaxGroups

\* what list-nodegroups can print: the cluster's n groups (named 1..n), here in
\* ascending or in descending order of name
GroupLists ==
    UNION { { [i \in 1..n |-> i], [i \in 1..n |-> n + 1 - i] } : n \in 1..MaxGroups }

\* how list_nodegroups ends: the list, RuntimeError (non-zero status with stderr),
\* [] (non-zero without stderr, empty or unparseable output), TimeoutExpired
ListOutcomes == {"ok", "error", "empty", "timeout"}

\* how the kubeconfig lookups (get_cluster_name / _region / _profile) end
LookupOutcomes == {"ok", "error", "timeout"}

SizeArgs ==
    [min_size : {<<>>, <<0>>}, max_size : {<<>>, <<3>>},
     desired_size : {<<>>, <<0>>, <<1>>}]

ScaleCaptypes == {None, "spot", "on-demand", "fargate"}

NoAwsCalls == [kubectl |-> 0, list |-> 0, describe |-> 0, update |-> 0]

ScaleInit ==
    /\ nodegroup \in {NoGroup, 1}
    /\ scale_all \in BOOLEAN
    /\ scaleCaptype \in ScaleCaptypes
    /\ sizes \in SizeArgs
    /\ scalePc = "start"
    /\ all_names = <<>>
    /\ names = <<>>
    /\ info = NoInfo
    /\ selIdx = 1
    /\ targets = <<>>
    /\ updIdx = 1
    /\ failed = 0
    /\ outcomes = <<>>
    /\ lastUpdate = NoUpdate
    /\ describeFailed = {}
    /\ awsCalls = NoAwsCalls
    /\ scaleError = "none"
    /\ scaleExit = 0

ScaleIdle ==
    /\ nodegroup = NoGroup
    /\ scale_all = FALSE
    /\ scaleCaptype = None
    /\ sizes = [min_size |-> <<>>, max_size |-> <<>>, desired_size |-> <<>>]
    /\ scalePc = "idle"
    /\ all_names = <<>>
    /\ names = <<>>
    /\ info = NoInfo
    /\ selIdx = 1
    /\ targets = <<>>
    /\ updIdx = 1
    /\ failed = 0
    /\ outcomes = <<>>
    /\ lastUpdate = NoUpdate
    /\ describeFailed = {}
    /\ awsCalls = NoAwsCalls
    /\ scaleError = "none"
    /\ scaleExit = 0

notScale == <<drainVars, podVars, cliVars, nodeVars, progVars, rawVars>>

ScaleArgs == <<nodegroup, scale_all, scaleCaptype, sizes>>

\* sys.exit(code) after the message `err` stands for (or a traceback)
ExitScale(err, code) ==
    /\ scaleError' = err
    /\ scaleExit' = code
    /\ scalePc' = "exit"

\* only the check that a size was supplied
UsageError_sizesOnly(ng, all, cap, sz) ==
    IF sz.min_size = <<>> /\ sz.max_size = <<>> /\ sz.desired_size = <<>>
    THEN "no_sizes"
    ELSE "none"

\* the checks of cli.py 505-517, in order: the message printed, "none" if all pass
UsageError(ng, all, cap, sz) ==
    IF sz.min_size = <<>> /\ sz.max_size = <<>> /\ sz.desired_size = <<>>
    THEN "no_sizes"
    ELSE IF ng # NoGroup /\ (all \/ Truthy(cap)) THEN "name_with_selector"
    ELSE IF all /\ Truthy(cap) THEN "all_with_captype"
    ELSE IF ng = NoGroup /\ ~all /\ ~Truthy(cap) THEN "no_selector"
    ELSE "none"

\* scale_cmd up to the first external call
Validate ==
    /\ scalePc = "start"
    /\ LET err == UsageError(nodegroup, scale_all, scaleCaptype, sizes)
       IN IF err # "none" THEN ExitScale(err, 1)
          ELSE /\ scalePc' = "lookup"
               /\ UNCHANGED <<scaleError, scaleExit>>
    /\ UNCHANGED <<ScaleArgs, all_names, names, info, selIdx, targets, updIdx,
                   failed, outcomes, lastUpdate, describeFailed, awsCalls>>
    /\ UNCHANGED notScale

\* cluster = get_cluster_name(); region = ...; profile = ...
ClusterLookup ==
    /\ scalePc = "lookup"
    /\ awsCalls' = [awsCalls EXCEPT !.kubectl = @ + 1]
    /\ \E o \in LookupOutcomes :
         IF o = "error" THEN ExitScale("query_error", 1)
         ELSE IF o = "timeout" THEN ExitScale("traceback", 1)
         ELSE /\ scalePc' = "resolve"
              /\ UNCHANGED <<scaleError, scaleExit>>
    /\ UNCHANGED <<ScaleArgs, all_names, names, info, selIdx, targets, updIdx,
                   failed, outcomes, lastUpdate, describeFailed>>
    /\ UNCHANGED notScale

\* the update loop begins: for ng in sorted(names)
StartLoop(ns) ==
    /\ targets' = sorted(ns)
    /\ scalePc' = "update"
    /\ UNCHANGED <<scaleError, scaleExit>>

\* if scale_all or captype: all_names = list_nodegroups(...)
ListGroups ==
    /\ scalePc = "resolve"
    /\ scale_all \/ Truthy(scaleCaptype)
    /\ awsCalls' = [awsCalls EXCEPT !.list = @ + 1]
    /\ \E o \in ListOutcomes, l \in GroupLists :
         IF o = "error" THEN
            /\ ExitScale("query_error", 1)
            /\ UNCHANGED <<all_names, names, targets>>
         ELSE IF o = "timeout" THEN
            /\ ExitScale("traceback", 1)
            /\ UNCHANGED <<all_names, names, targets>>
         ELSE IF o = "empty" THEN
            /\ ExitScale("no_groups", 1)
            /\ UNCHANGED <<all_names, names, targets>>
         ELSE /\ all_names' = l
              /\ IF Truthy(scaleCaptype)
                 THEN /\ scalePc' = "select"
                      /\ UNCHANGED <<names, targets, scaleError, scaleExit>>
                 ELSE /\ names' = l
                      /\ StartLoop(l)
    /\ UNCHANGED <<ScaleArgs, info, selIdx, updIdx, failed, outcomes, lastUpdate,
                   describeFailed>>
    /\ UNCHANGED notScale

\* for ng_name in all_names: info = get_nodegroup_info(...);
\*     if info and info.capacity_type == captype: names.append(ng_name)
\* and, after the last one: if not names: ... sys.exit(1)
SelectDescribe ==
    /\ scalePc = "select"
    /\ awsCalls' = [awsCalls EXCEPT !.describe = @ + 1]
    /\ \E d \in DescribeOutcomes :
         LET ng == all_names[selIdx]
             r == get_nodegroup_info(d)
             keep == r.info.found /\ r.info.capacity_type = scaleCaptype
             ns == IF keep THEN Append(names, ng) ELSE names
         IN IF r.raised # "none"
            THEN /\ ExitScale("traceback", 1)
                 /\ UNCHANGED <<names, info, selIdx, targets, describeFailed>>
            ELSE /\ info' = r.info
                 /\ names' = ns
                 /\ describeFailed' = IF r.info.found THEN describeFailed
                                      ELSE describeFailed \cup {ng}
                 /\ selIdx' = selIdx + 1
                 /\ IF selIdx < Len(all_names)
                    THEN UNCHANGED <<scalePc, targets, scaleError, scaleExit>>
                    ELSE IF ns = <<>>
                         THEN ExitScale("no_match", 1) /\ UNCHANGED targets
                         ELSE StartLoop(ns)
    /\ UNCHANGED <<ScaleArgs, all_names, updIdx, failed, outcomes, lastUpdate>>
    /\ UNCHANGED notScale

\* else: names = [nodegroup]; info = get_nodegroup_info(...); if not info: sys.exit(1)
DescribeSingle ==
    /\ scalePc = "resolve"
    /\ ~(scale_all \/ Truthy(scaleCaptype))
    /\ awsCalls' = [awsCalls EXCEPT !.describe = @ + 1]
    /\ names' = <<nodegroup>>
    /\ \E d \in DescribeOutcomes :
         LET r == get_nodegroup_info(d)
         IN IF r.raised # "none"
            THEN /\ ExitScale("traceback", 1)
                 /\ UNCHANGED <<info, targets, describeFailed>>
            ELSE /\ info' = r.info
                 /\ IF r.info.found
                    THEN StartLoop(<<nodegroup>>) /\ UNCHANGED describeFailed
                    ELSE /\ ExitScale("not_found", 1)
                         /\ describeFailed' = describeFailed \cup {nodegroup}
                         /\ UNCHANGED targets
    /\ UNCHANGED <<ScaleArgs, all_names, selIdx, updIdx, failed, outcomes, lastUpdate>>
    /\ UNCHANGED notScale

\* one turn of the update loop: rc, out = update_nodegroup_scaling(...);
\* if rc != 0: failed += 1
UpdateGroup ==
    /\ scalePc = "update"
    /\ updIdx <= Len(targets)
    /\ \E d \in DescribeOutcomes, u \in UpdateOutcomes :
         LET ng == targets[updIdx]
             r == update_nodegroup_scaling(ng, sizes, d, u)
         IN /\ awsCalls' = [awsCalls EXCEPT
                              !.describe = @ + 1,
                              !.update = @ + (IF r.update.issued THEN 1 ELSE 0)]
            /\ lastUpdate' = IF r.update.issued THEN r.update ELSE lastUpdate
            /\ describeFailed' = IF d.kind = "fail" THEN describeFailed \cup {ng}
                                 ELSE describeFailed
            /\ IF r.raised # "none"
               THEN /\ outcomes' = Append(outcomes, [ng |-> ng, result |-> "raised"])
                    /\ ExitScale("traceback", 1)
                    /\ UNCHANGED <<updIdx, failed>>
               ELSE /\ outcomes' = Append(outcomes,
                          [ng |-> ng, result |-> IF r.rc # 0 THEN "failed" ELSE "ok"])
                    /\ failed' = IF r.rc # 0 THEN failed + 1 ELSE failed
                    /\ updIdx' = updIdx + 1
                    /\ UNCHANGED <<scalePc, scaleError, scaleExit>>
    /\ UNCHANGED <<ScaleArgs, all_names, names, info, selIdx, targets>>
    /\ UNCHANGED notScale

\* sys.exit(1 if failed else 0)
ScaleExit ==
    /\ scalePc = "update"
    /\ updIdx > Len(targets)
    /\ ExitScale("none", IF failed # 0 THEN 1 ELSE 0)
    /\ UNCHANGED <<ScaleArgs, all_names, names, info, selIdx, targets, updIdx,
                   failed, outcomes, lastUpdate, describeFailed, awsCalls>>
    /\ UNCHANGED notScale

ScaleNext ==
    \/ Validate \/ ClusterLookup \/ ListGroups \/ SelectDescribe \/ DescribeSingle
    \/ UpdateGroup \/ ScaleExit

----------------------------------------------------------------------------
(* NodeInfo.from_dict on raw node records (nodes.py 47-83) *)

\* dict.get(key, default)
GetOr(d, key, default) == IF key \in DOMAIN d THEN d[key] ELSE default

\* a dict holding key only when it is present
Opt(key, present, val) == IF present THEN key :> val ELSE NoLabels

InstanceTypeLabel == "node.kubernetes.io/instance-type"
BetaInstanceTypeLabel == "beta.kubernetes.io/instance-type"
ZoneLabel == "topology.kubernetes.io/zone"

\* the values each capacity label takes in the enumerated records (None: absent)
KarpenterValues == {None, "", "spot", "on-demand"}
EksCapacityValues == {None, "", "SPOT", "ON_DEMAND"}
ComputeTypeValues == {None, "", "fargate"}
NodegroupValues == {None, "", "main"}

LabelMaps ==
    { Opt(KarpenterLabel, k # None, k) @@ Opt(EksCapacityLabel, e # None, e)
        @@ Opt(ComputeTypeLabel, c # None, c) @@ Opt(NodegroupLabel, g # None, g) :
        k \in KarpenterValues, e \in EksCapacityValues,
        c \in ComputeTypeValues, g \in NodegroupValues }

\* entries of status.conditions, with any of their keys missing
ConditionEntries ==
    { NoLabels,
      "type" :> "Ready",
      "status" :> "True",
      ("type" :> "Ready") @@ ("status" :> "True"),
      ("type" :> "MemoryPressure") @@ ("status" :> "False") }

ConditionLists == UNION { [1..n -> ConditionEntries] : n \in 0..MaxConds }

MetadataForms ==
    {NoLabels, "name" :> "ip-10-0-0-1"}
    \cup { "labels" :> l : l \in LabelMaps }
    \cup { ("name" :> "ip-10-0-0-1") @@ ("labels" :> l) : l \in LabelMaps }

SpecForms == {NoLabels, "unschedulable" :> TRUE, "unschedulable" :> FALSE}

StatusForms == {NoLabels} \cup { "conditions" :> cs : cs \in ConditionLists }

\* raw node records with any subset of their keys absent, at every level
NodeObjects ==
    { m @@ sp @@ st :
        m \in {NoLabels} \cup { "metadata" :> x : x \in MetadataForms },
        sp \in {NoLabels} \cup { "spec" :> x : x \in SpecForms },
        st \in {NoLabels} \cup { "status" :> x : x \in StatusForms } }

RECURSIVE StatusParts(_)
\* [c["type"] for c in conditions if c.get("status") == "True"]:
\* [raised |-> exception or "none", parts |-> the list]
StatusParts(conditions) ==
    IF conditions = <<>> THEN [raised |-> "none", parts |-> <<>>]
    ELSE LET c == Head(conditions)
             rest == StatusParts(Tail(conditions))
         IN IF Get(c, "status") # "True" THEN rest
            ELSE IF "type" \notin DOMAIN c THEN [raised |-> "KeyError", parts |-> <<>>]
            ELSE IF rest.raised # "none" THEN rest
            ELSE [raised |-> "none", parts |-> <<c["type"]>> \o rest.parts]

\* metadata.get("labels", {})
LabelsOf(obj) == GetOr(GetOr(obj, "metadata", NoLabels), "labels", NoLabels)

NoNodeInfo == [converted |-> FALSE]

NodesInit ==
    /\ nodeObj \in NodeObjects
    /\ nodePc = "start"
    /\ status_parts = <<>>
    /\ ctype = None
    /\ nodeInfo = NoNodeInfo

NodesIdle ==
    /\ nodeObj = NoLabels
    /\ nodePc = "idle"
    /\ status_parts = <<>>
    /\ ctype = None
    /\ nodeInfo = NoNodeInfo

\* from_dict lines 50-59: metadata, spec, status, conditions, status_parts
ConvertStatus ==
    /\ nodePc = "start"
    /\ LET spec == GetOr(nodeObj, "spec", NoLabels)
           status == GetOr(nodeObj, "status", NoLabels)
           r == StatusParts(GetOr(status, "conditions", <<>>))
       IN IF r.raised # "none"
          THEN /\ nodePc' = "raised"
               /\ UNCHANGED status_parts
          ELSE /\ status_parts' =
                     r.parts \o (IF GetOr(spec, "unschedulable", FALSE)
                                 THEN <<"NoSchedule">> ELSE <<>>)
               /\ nodePc' = "labels"
    /\ UNCHANGED <<nodeObj, ctype, nodeInfo>>
    /\ UNCHANGED notNodes

\* from_dict lines 61-83: labels, instance_type, zone, ctype, captype, return cls(...)
ConvertLabels ==
    /\ nodePc = "labels"
    /\ LET metadata == GetOr(nodeObj, "metadata", NoLabels)
           spec == GetOr(nodeObj, "spec", NoLabels)
           labels == LabelsOf(nodeObj)
           it == Get(labels, InstanceTypeLabel)
           bit == Get(labels, BetaInstanceTypeLabel)
           named == NodeInfo_from_dict(NodeItem(GetOr(metadata, "name", ""), labels))
       IN /\ ctype' = _capacity_type(labels)
          /\ nodeInfo' =
                [converted |-> TRUE,
                 name |-> named.name,
                 status |-> status_parts,
                 instance_type |-> IF Truthy(it) THEN it
                                   ELSE IF Truthy(bit) THEN bit ELSE "",
                 zone |-> GetOr(labels, ZoneLabel, ""),
                 captype |-> named.captype,
                 unschedulable |-> GetOr(spec, "unschedulable", FALSE)]
    /\ nodePc' = "done"
    /\ UNCHANGED <<nodeObj, status_parts>>
    /\ UNCHANGED notNodes

NodesNext == ConvertStatus \/ ConvertLabels

----------------------------------------------------------------------------
(* _format_progress called on its own (kubectl.py 179-187) *)

NoMsg == [rendered |-> FALSE]

ProgressInit ==
    /\ progEvicted \in 0..MaxCount
    /\ progTotal \in -1..MaxCount
    /\ progMsg = NoMsg

ProgressIdle ==
    /\ progEvicted = 0
    /\ progTotal = 0
    /\ progMsg = [rendered |-> "idle"]

\* msg = _format_progress(evicted, total)
Format ==
    /\ progMsg = NoMsg
    /\ progMsg' = [rendered |-> TRUE] @@ _format_progress(progEvicted, progTotal)
    /\ UNCHANGED <<progEvicted, progTotal>>
    /\ UNCHANGED notProgress

ProgressNext == Format

----------------------------------------------------------------------------
(* PodInfo.from_dict on raw pod records (nodes.py 118-147) *)

\* entries of status.containerStatuses: any of restartCount, state, the waiting
\* state and its reason may be absent, and a reason may be empty
ContainerStatuses ==
    { NoLabels,
      ("restartCount" :> 1) @@ ("state" :> ("running" :> NoLabels)),
      ("restartCount" :> 2) @@ ("state" :> ("waiting" :> ("reason" :> "CrashLoopBackOff"))),
      "state" :> ("waiting" :> ("reason" :> "ImagePullBackOff")),
      ("restartCount" :> 1) @@ ("state" :> ("waiting" :> NoLabels)),
      ("restartCount" :> 3) @@ ("state" :> ("waiting" :> ("reason" :> ""))) }

\* raw pod records: metadata with its owner references, and status with its phase
\* and container statuses, each present or absent
RawPods ==
    { m @@ st :
        m \in {NoLabels, "metadata" :> NoLabels}
              \cup { "metadata" :> ("ownerReferences" :> refs) :
                       refs \in { <<>>, <<NoLabels>>, <<"kind" :> "ReplicaSet">>,
                                  <<"kind" :> DaemonSetKind>>,
                                  <<"kind" :> "ReplicaSet", "kind" :> DaemonSetKind>> } },
        st \in {NoLabels}
               \cup { "status" :> (ph @@ cs) :
                        ph \in {NoLabels, "phase" :> "Running", "phase" :> "Pending"},
                        cs \in {NoLabels}
                               \cup { "containerStatuses" :> l :
                                        l \in UNION { [1..n -> ContainerStatuses] :
                                                        n \in 0..MaxContainers } } } }

RECURSIVE WaitingStatus_lastWins(_, _)
\* a scan without the break: the last waiting reason wins
WaitingStatus_lastWins(statuses, phase) ==
    IF statuses = <<>> THEN phase
    ELSE LET waiting == GetOr(GetOr(Head(statuses), "state", NoLabels), "waiting", NoLabels)
             reason == GetOr(waiting, "reason", "")
             later == WaitingStatus_lastWins(Tail(statuses), "")
         IN IF later # "" THEN later
            ELSE IF reason # "" THEN reason ELSE phase

RECURSIVE WaitingStatus(_, _)
\* for cs in container_statuses: ... if reason: phase = reason; break
WaitingStatus(statuses, phase) ==
    IF statuses = <<>> THEN phase
    ELSE LET waiting == GetOr(GetOr(Head(statuses), "state", NoLabels), "waiting", NoLabels)
             reason == GetOr(waiting, "reason", "")
         IN IF reason # "" THEN reason
            ELSE WaitingStatus(Tail(statuses), phase)

RECURSIVE SumRestarts(_)
\* sum(cs.get("restartCount", 0) for cs in container_statuses)
SumRestarts(statuses) ==
    IF statuses = <<>> THEN 0
    ELSE GetOr(Head(statuses), "restartCount", 0) + SumRestarts(Tail(statuses))

\* any(ref.get("kind") == "DaemonSet" for ref in owner_refs)
AnyDaemonSet(refs) ==
    \E i \in 1..Len(refs) : Get(refs[i], "kind") = DaemonSetKind

RawInit ==
    /\ podObj \in RawPods
    /\ podInfo = [converted |-> FALSE]

RawIdle ==
    /\ podObj = NoLabels
    /\ podInfo = [converted |-> "idle"]

\* PodInfo.from_dict(obj): status, restarts and is_daemonset
FromDict ==
    /\ podInfo = [converted |-> FALSE]
    /\ LET metadata == GetOr(podObj, "metadata", NoLabels)
           pod_status == GetOr(podObj, "status", NoLabels)
           container_statuses == GetOr(pod_status, "containerStatuses", <<>>)
       IN podInfo' =
            [converted |-> TRUE,
             status |-> WaitingStatus(container_statuses,
                                      GetOr(pod_status, "phase", "Unknown")),
             restarts |-> SumRestarts(container_statuses),
             is_daemonset |-> AnyDaemonSet(GetOr(metadata, "ownerReferences", <<>>))]
    /\ UNCHANGED podObj
    /\ UNCHANGED notRaw

----------------------------------------------------------------------------
(* Specifications *)

vars == <<drainVars, podVars, cliVars, scaleVars, nodeVars, progVars, rawVars>>

\* nothing but the operation under study runs
OthersIdle == NodesIdle /\ ProgressIdle /\ RawIdle

InitDrain == DrainInit /\ PodsIdle /\ CliIdle /\ ScaleIdle /\ OthersIdle
SpecDrain == InitDrain /\ [][DrainNext]_vars

\* the thread that called drain_nodes keeps running: every join and wait it makes
\* has a timeout.  Nothing is assumed of the process, the reader or the user.
SpecDrainLive == InitDrain /\ [][DrainShortNext]_vars /\ WF_vars(MainThread)

InitPods == PodsInit /\ DrainIdle /\ CliIdle /\ ScaleIdle /\ OthersIdle
SpecPods == InitPods /\ [][PodsNext]_vars

InitCli == CliInit /\ DrainIdle /\ PodsIdle /\ ScaleIdle /\ OthersIdle
SpecCli == InitCli /\ [][CliNext]_vars

InitScale == ScaleInit /\ DrainIdle /\ PodsIdle /\ CliIdle /\ OthersIdle
SpecScale == InitScale /\ [][ScaleNext]_vars

InitNodes ==
    NodesInit /\ DrainIdle /\ PodsIdle /\ CliIdle /\ ScaleIdle /\ ProgressIdle
    /\ RawIdle
SpecNodes == InitNodes /\ [][NodesNext]_vars

InitProgress ==
    ProgressInit /\ DrainIdle /\ PodsIdle /\ CliIdle /\ ScaleIdle /\ NodesIdle
    /\ RawIdle
SpecProgress == InitProgress /\ [][ProgressNext]_vars

InitRaw ==
    RawInit /\ DrainIdle /\ PodsIdle /\ CliIdle /\ ScaleIdle /\ NodesIdle
    /\ ProgressIdle
SpecRaw == InitRaw /\ [][FromDict]_vars

\* one run of any command of the CLI: a node command or scale
InitCommand ==
    /\ \/ CliInit /\ ScaleIdle
       \/ CliIdle /\ ScaleInit
    /\ DrainIdle /\ PodsIdle /\ OthersIdle
CommandNext == CliNext \/ ScaleNext
SpecCommand == InitCommand /\ [][CommandNext]_vars

----------------------------------------------------------------------------
(* Properties of drain_nodes (checked under SpecDrain) *)

ProgressReturned == pc = "returned" /\ show_progress /\ node_names # <<>>

\* C1 (as stated): in progress mode, whenever drain_nodes returns, it returns the
\* process's exit code and every line the process emitted, in emission order.
C1_AllLinesReturned ==
    ProgressReturned => (ret.rc = returncode /\ ret.out = emitted)

\* C1 (amended): in progress mode, whenever drain_nodes returns, it returns the
\* process's exit code and a prefix, in emission order, of the lines the process
\* emitted; the prefix is every emitted line whenever the final bounded join
\* found the reader at end of stream.
C1_CapturedPrefixReturned ==
    ProgressReturned =>
        /\ ret.rc = returncode
        /\ IsPrefix(ret.out, emitted)
        /\ (readerJoined => ret.out = emitted)

\* a progress-mode drain returned all MaxLines emitted lines after a joined reader
C1_Witness ==
    /\ ProgressReturned
    /\ readerJoined
    /\ Len(emitted) >= 3
    /\ ret.out = emitted
    /\ ret.rc = 1

\* C2: if the pre-drain pod-count query fails (non-zero, empty, unparseable,
\* timeout, launch failure) the total is 0 and the drain is still launched: no
\* exception reaches the caller of drain_nodes before the drain process exists.
C2_CountFailureNeverAborts ==
    countOutcome \in CountFailures =>
        /\ total = 0
        /\ (pc = "raised" => procState # "none")

\* C3: if the poll/render loop is interrupted while the drain process runs, the
\* process is sent a terminate request, the progress line is cleared and the
\* exception reaching the caller is the original interruption.
C3_InterruptPropagates ==
    (pc = "raised" /\ interruptedAt = "running") =>
        /\ termSent
        /\ display = Cleared
        /\ exc = "KeyboardInterrupt"

----------------------------------------------------------------------------
(* Properties of get_pods_for_nodes (checked under SpecPods) *)

\* the pods of the inventory a request asks for
WantedPods ==
    { PodInfo_from_dict(podItems[i]) : i \in
        { k \in 1..Len(podItems) :
            /\ podItems[k].nodeName \in SeqToSet(podArgs.node_names)
            /\ (podArgs.include_daemonsets
                \/ ~OwnedByDaemonSet(podItems[k].owners)) } }

\* p comes before q in (node, namespace, name) order
PodBefore(p, q) ==
    \/ p.node < q.node
    \/ p.node = q.node /\ p.namespace < q.namespace
    \/ p.node = q.node /\ p.namespace = q.namespace /\ p.name < q.name

\* C4: for every pod inventory, every non-empty requested node set and both values
\* of include_daemonsets, get_pods_for_nodes returns exactly the pods whose node is
\* requested, minus DaemonSet-owned pods unless include_daemonsets, in ascending
\* (node, namespace, name) order; for an empty request it returns an empty list
\* without querying.
C4_PodsFilteredAndSorted ==
    (podCall # NoCall) =>
        IF podArgs.node_names = <<>>
        THEN podCall.raised = "none" /\ podCall.pods = <<>> /\ ~podCall.queried
        ELSE /\ podCall.queried
             /\ (podCall.fetch = "ok") =>
                   /\ podCall.raised = "none"
                   /\ SeqToSet(podCall.pods) = WantedPods
                   /\ Len(podCall.pods) = Cardinality(WantedPods)
                   /\ \A i, j \in 1..Len(podCall.pods) :
                        i < j => PodBefore(podCall.pods[i], podCall.pods[j])

\* a fetch of three pods listed out of order, one of them DaemonSet-owned on a
\* requested node and left out, the other two returned in swapped order
C4_Witness ==
    /\ podCall # NoCall
    /\ podCall.fetch = "ok"
    /\ ~podArgs.include_daemonsets
    /\ Len(podItems) = 3
    /\ Len(podCall.pods) = 2
    /\ \E k \in 1..3 : /\ OwnedByDaemonSet(podItems[k].owners)
                       /\ podItems[k].nodeName \in SeqToSet(podArgs.node_names)
    /\ podCall.pods[1] = PodInfo_from_dict(podItems[3])

----------------------------------------------------------------------------
(* Properties of the node commands (checked under SpecCli) *)

\* the names of the nodes in the cluster
ClusterNames == { clusterNodes[i].name : i \in 1..Len(clusterNodes) }

\* C5: in the pods command, if a requested node name is not in the fetched node
\* inventory the command fails with the unknown-node error and no pod fetch is
\* ever issued; a pod fetch happens only after every resolved name was found.
C5_UnknownNodeBeforePodFetch ==
    cmd = "pods" =>
        /\ (nodes_by_name.fetched /\ \E i \in 1..Len(node_list) :
                                        node_list[i] \notin nodes_by_name.names)
              => /\ cliPc = "exit"
                 /\ cliError = "unknown_node"
                 /\ exitCode # 0
                 /\ calls.get_pods = 0
        /\ (cliPc = "get_pods" \/ calls.get_pods > 0)
              => /\ nodes_by_name.fetched
                 /\ \A i \in 1..Len(node_list) : node_list[i] \in nodes_by_name.names

\* pods 4 -c spot on a cluster with spot nodes: rejected as unknown, nothing fetched
C5_Witness ==
    /\ cmd = "pods"
    /\ cliPc = "exit"
    /\ cliError = "unknown_node"
    /\ Len(node_list) >= 2
    /\ nodes_by_name.names # {}
    /\ calls.get_pods = 0

\* the inventory nodes whose captype is string-equal to the filter
FilterMatches ==
    IF captype = None THEN {}
    ELSE { n \in ClusterNames :
             \E i \in 1..Len(clusterNodes) :
                 /\ clusterNodes[i].name = n
                 /\ NodeInfo_from_dict(clusterNodes[i]).captype = captype }

\* C6: _resolve_nodes returns, without duplicates, exactly the union of the
\* explicit names (verbatim, unchecked) and the inventory nodes whose captype is
\* string-equal to the filter; nothing for no names and no filter; {a, b} for
\* [a, a, b] and no filter.
C6_ResolveIsUnion ==
    resolved =>
        /\ \A i, j \in 1..Len(node_list) : node_list[i] = node_list[j] => i = j
        /\ SeqToSet(node_list) = SeqToSet(node_args) \cup FilterMatches
        /\ (node_args = <<>> /\ captype = None) => node_list = <<>>
        /\ (node_args = <<1, 1, 2>> /\ captype = None) => SeqToSet(node_list) = {1, 2}

\* [a, a, b] -c NG/spot resolved to {a, b, c}: c is the one NG/spot node
C6_Witness ==
    /\ resolved
    /\ node_args = <<1, 1, 2>>
    /\ captype = "NG/spot"
    /\ SeqToSet(node_list) = {1, 2, 3}
    /\ Len(node_list) = 3

\* C7: whenever the resolved target set is empty, the command exits non-zero and
\* never invokes cordon, uncordon, drain or a pod fetch.
C7_EmptyTargetIsError ==
    (resolved /\ node_list = <<>>) =>
        /\ calls.cordon = 0 /\ calls.uncordon = 0 /\ calls.drain = 0
        /\ calls.get_pods = 0
        /\ cliPc \in {"resolved", "exit"}
        /\ cliPc = "exit" => (exitCode # 0 /\ cliError = "no_nodes")

\* cordon-drain -c fargate on a cluster without fargate nodes: usage error
C7_Witness ==
    /\ resolved
    /\ node_list = <<>>
    /\ cmd = "cordon-drain"
    /\ captype = "fargate"
    /\ clusterNodes # <<>>
    /\ cliPc = "exit"
    /\ exitCode = 1

----------------------------------------------------------------------------
(* Properties of the scale command (checked under SpecScale) *)

\* the value of one field of an issued update: the supplied one, else the described one
Expected(opt, described) == IF opt = <<>> THEN described ELSE opt[1]

C9_EveryTargetAttempted ==
    (scalePc = "exit" /\ targets # <<>>) =>
        /\ \A i \in 1..Len(targets) :
              \E k \in 1..Len(outcomes) : outcomes[k].ng = targets[i]
        /\ (scaleExit # 0) <=> (\E k \in 1..Len(outcomes) : outcomes[k].result # "ok")

\* C10: under every selector, once the update loop has run and the command exits
\* with its aggregate status, each group that failed to describe has a failure
\* entry of its own and the status is non-zero.
C10_DescribeFailureReported ==
    (scalePc = "exit" /\ scaleError = "none") =>
        \A g \in describeFailed :
            /\ \E k \in 1..Len(outcomes) :
                  outcomes[k].ng = g /\ outcomes[k].result = "failed"
            /\ scaleExit # 0

\* no size option was given
NoSizeGiven ==
    sizes.min_size = <<>> /\ sizes.max_size = <<>> /\ sizes.desired_size = <<>>

\* how many of the three selectors (name, --all, --captype) were given
SelectorsGiven ==
    (IF nodegroup # NoGroup THEN 1 ELSE 0)
    + (IF scale_all THEN 1 ELSE 0)
    + (IF scaleCaptype \notin {None, ""} THEN 1 ELSE 0)

\* C11: in scale, when no size is supplied or the selectors are not exactly one,
\* the command exits non-zero without any kubectl or aws invocation: no cluster
\* lookup, no list, no describe, no update.
C11_ScaleValidatesBeforeCalls ==
    /\ (scalePc # "start" /\ (NoSizeGiven \/ SelectorsGiven # 1)) =>
           /\ scalePc = "exit"
           /\ scaleExit # 0
           /\ awsCalls = NoAwsCalls
           /\ lastUpdate = NoUpdate
    /\ (awsCalls # NoAwsCalls) => (~NoSizeGiven /\ SelectorsGiven = 1)

\* scale NAME --all --desired 1: rejected for its selectors, nothing invoked
C11_Witness ==
    /\ scalePc = "exit"
    /\ ~NoSizeGiven
    /\ nodegroup # NoGroup
    /\ scale_all
    /\ scaleError = "name_with_selector"
    /\ scaleExit = 1
    /\ awsCalls = NoAwsCalls

----------------------------------------------------------------------------
(* Properties of NodeInfo.from_dict and _capacity_type (checked under SpecNodes) *)

\* the value of a label of the raw record, None when the label (or labels, or
\* metadata) is absent
LabelValue(key) == Get(LabelsOf(nodeObj), key)

\* the label is present and not empty
Given(key) == LabelValue(key) \notin {None, ""}

\* C12: _capacity_type returns the first non-empty of the karpenter label verbatim,
\* the EKS capacityType label with "_" replaced by "-" and lowercased, and the
\* compute-type label; the empty string, never None, when none applies; a label
\* present but empty cascades like an absent one.
C12_CapacityTypeCascade ==
    nodePc = "done" =>
        /\ ctype # None
        /\ Given(KarpenterLabel) => ctype = LabelValue(KarpenterLabel)
        /\ (~Given(KarpenterLabel) /\ LabelValue(EksCapacityLabel) = "ON_DEMAND")
              => ctype = "on-demand"
        /\ (~Given(KarpenterLabel) /\ LabelValue(EksCapacityLabel) = "SPOT")
              => ctype = "spot"
        /\ (~Given(KarpenterLabel) /\ ~Given(EksCapacityLabel)
              /\ Given(ComputeTypeLabel)) => ctype = LabelValue(ComputeTypeLabel)
        /\ (~Given(KarpenterLabel) /\ ~Given(EksCapacityLabel)
              /\ ~Given(ComputeTypeLabel)) => ctype = ""

\* a karpenter label present but empty, capacityType SPOT: the tag is spot
C12_Witness ==
    /\ nodePc = "done"
    /\ LabelValue(KarpenterLabel) = ""
    /\ LabelValue(EksCapacityLabel) = "SPOT"
    /\ LabelValue(ComputeTypeLabel) = "fargate"
    /\ ctype = "spot"

\* C13 (as stated): whenever the capacityType label is ON_DEMAND, whatever other
\* labels are present, the classifier yields on-demand.
C13_OnDemandAlways ==
    (nodePc = "done" /\ LabelValue(EksCapacityLabel) = "ON_DEMAND")
        => ctype = "on-demand"

\* C13 (amended): whenever the capacityType label is ON_DEMAND the classifier yields
\* on-demand unless a non-empty karpenter label is present, whose value it then
\* yields; the compute-type and node group labels never matter.
C13_OnDemandUnlessKarpenter ==
    (nodePc = "done" /\ LabelValue(EksCapacityLabel) = "ON_DEMAND") =>
        ctype = IF LabelValue(KarpenterLabel) \in {None, ""}
                THEN "on-demand"
                ELSE LabelValue(KarpenterLabel)

\* capacityType ON_DEMAND next to a compute-type and a node group label
C13_Witness ==
    /\ nodePc = "done"
    /\ LabelValue(EksCapacityLabel) = "ON_DEMAND"
    /\ LabelValue(KarpenterLabel) = None
    /\ LabelValue(ComputeTypeLabel) = "fargate"
    /\ LabelValue(NodegroupLabel) = "main"
    /\ ctype = "on-demand"

\* C14: NodeInfo.captype is "NG/" + tag when the node group label and the tag are
\* both non-empty, the bare tag when the node group label is absent or empty, and
\* "-" whenever the tag is empty; it is never empty and never None.
C14_CaptypePrefixAndPlaceholder ==
    nodePc = "done" =>
        /\ nodeInfo.captype =
              IF ctype = "" THEN "-"
              ELSE IF Given(NodegroupLabel) THEN "NG/" \o ctype
              ELSE ctype
        /\ nodeInfo.captype \notin {"", None}
        /\ (Given(NodegroupLabel) /\ ctype = "spot") => nodeInfo.captype = "NG/spot"

\* a node group member tagged spot by karpenter becomes NG/spot
C14_Witness ==
    /\ nodePc = "done"
    /\ LabelValue(NodegroupLabel) = "main"
    /\ LabelValue(KarpenterLabel) = "spot"
    /\ nodeInfo.captype = "NG/spot"

\* C17: NodeInfo.from_dict never fails on a record with missing keys, at any level,
\* and each field whose source is missing is an empty string or false.
C17_NeverFailsOnMissingFields ==
    /\ nodePc # "raised"
    /\ nodePc = "done" =>
          /\ ("name" \notin DOMAIN GetOr(nodeObj, "metadata", NoLabels))
                => nodeInfo.name = ""
          /\ ("conditions" \notin DOMAIN GetOr(nodeObj, "status", NoLabels)
                /\ "unschedulable" \notin DOMAIN GetOr(nodeObj, "spec", NoLabels))
                => nodeInfo.status = <<>>
          /\ ("unschedulable" \notin DOMAIN GetOr(nodeObj, "spec", NoLabels))
                => nodeInfo.unschedulable = FALSE
          /\ nodeInfo.zone = ""
          /\ nodeInfo.instance_type = ""

----------------------------------------------------------------------------
(* Properties of _format_progress (checked under SpecProgress) *)

\* C18: for total <= 0 the indeterminate message without a bar; for total > 0 and
\* every evicted >= 0 a bar exactly 30 cells wide whose "=" cells number
\* floor(30 * min(evicted, total) / total), never more than 30, a ">" head only
\* when evicted < total, and the literal counts evicted/total.
C18_ProgressBarBounded ==
    (progMsg.rendered = TRUE) =>
        IF progTotal <= 0
        THEN ~progMsg.bar
        ELSE LET m == IF progEvicted < progTotal THEN progEvicted ELSE progTotal
             IN /\ progMsg.bar
                /\ progMsg.cells = 30
                /\ progMsg.filled * progTotal <= 30 * m
                /\ 30 * m < (progMsg.filled + 1) * progTotal
                /\ progMsg.filled <= 30
                /\ progMsg.head \in {0, 1}
                /\ progMsg.head = 1 => progEvicted < progTotal
                /\ progMsg.evicted = progEvicted
                /\ progMsg.total = progTotal

\* more evictions counted than pods expected: a full bar without a head
C18_Witness ==
    /\ progMsg.rendered = TRUE
    /\ progTotal > 0
    /\ progEvicted > progTotal
    /\ progMsg.filled = 30
    /\ progMsg.head = 0
    /\ progMsg.cells = 30

----------------------------------------------------------------------------
(* Further properties of drain_nodes (checked under SpecDrain) *)

\* C19: non-progress mode counts no pods, starts no reader and renders nothing, and
\* returns what progress mode returns for the same process: the exit code and the
\* process's full output, standard output and diagnostic stream alike.
C19_SyncSameContract ==
    (~show_progress) =>
        /\ countOutcome = "none"
        /\ rpc = "idle"
        /\ display = NoDisplay
        /\ pc = "returned" /\ node_names # <<>>
              => (ret.rc = returncode /\ ret.out = emitted)

----------------------------------------------------------------------------
(* Further properties of the node commands (checked under SpecCli) *)

\* C15: get_all_nodes raises exactly when the node fetch fails (non-zero exit,
\* empty or unparseable output, no answer), and returns an empty list without an
\* error when the fetch yields a parseable document with zero nodes.
C15_RaisesExactlyOnFetchFailure ==
    (inventory # NoInventory) =>
        /\ (inventory.raised # "none") <=> (inventory.fetch \in {"fail", "timeout"})
        /\ (inventory.fetch = "emptydoc" \/ (inventory.fetch = "ok" /\ clusterNodes = <<>>))
              => (inventory.raised = "none" /\ inventory.nodes = <<>>)

----------------------------------------------------------------------------
(* Properties of every command (checked under SpecCommand) *)

\* the command ended in a validation error: no targets, an unknown node name, or
\* a scale usage error (no size, conflicting or missing selectors)
ValidationError ==
    \/ cliError \in {"no_nodes", "unknown_node"}
    \/ scaleError \in {"no_sizes", "name_with_selector", "all_with_captype",
                       "no_selector"}

----------------------------------------------------------------------------
(* Properties of the eviction counter (checked under SpecDrain) *)

\* how many elements of seq satisfy Test
CountIf(seq, Test(_)) == Cardinality({i \in 1..Len(seq) : Test(seq[i])})

\* the line was written for a pod the process evicted
Confirms(line) == line.confirms

\* the line contains "pod/" and, in any case, " evicted"
MatchesPattern(line) == line.hasPod /\ line.marker \in {"lower", "upper"}

\* C21: during and after a progress-mode drain the eviction counter never exceeds
\* the number of pods the drain process has evicted, whatever lines it emits.
C21_CounterNeverExceedsEvictions ==
    show_progress => evicted <= CountIf(emitted, Confirms)

\* the counter stands at the matching buffered lines, the one just appended
\* excepted until its increment is done
CounterTracksBuffer ==
    show_progress =>
        /\ evicted >= 0
        /\ evicted <= Len(output_lines)
        /\ evicted = CountIf(output_lines, MatchesPattern)
                     - (IF rpc = "match"
                           /\ MatchesPattern(output_lines[Len(output_lines)])
                        THEN 1 ELSE 0)

\* a step changes the counter only by +1, for the matching line appended last
CounterStep ==
    \/ evicted' = evicted
    \/ /\ evicted' = evicted + 1
       /\ output_lines' = output_lines
       /\ output_lines # <<>>
       /\ MatchesPattern(output_lines[Len(output_lines)])

\* C23: the eviction counter starts at 0, never decreases, changes only by +1, and
\* is incremented exactly once for each buffered line containing "pod/" and, in
\* any case, " evicted", after the line was appended; it never exceeds the number
\* of buffered lines and equals the number of matching lines consumed.
C23_CounterCountsMatchingLines ==
    /\ (pc = "entry" => evicted = 0)
    /\ []CounterTracksBuffer
    /\ [][CounterStep]_vars

\* three lines consumed, two of them matching (one in upper case): the counter is 2
C23_Witness ==
    /\ show_progress
    /\ rpc = "read"
    /\ Len(output_lines) = 3
    /\ CountIf(output_lines, MatchesPattern) = 2
    /\ \E i \in 1..3 : output_lines[i].marker = "upper"
    /\ evicted = 2

\* a step that changes the counter or the buffer is a step of the reader thread
SingleWriterStep ==
    (evicted' # evicted \/ output_lines' # output_lines) =>
        /\ rpc \in {"read", "match"}
        /\ rpc' # rpc
        /\ pc' = pc
        /\ display' = display

\* a render shows the counter as it stands when it is read
RenderStep ==
    (pc = "render" /\ pc' = "poll") =>
        /\ display'.kind = "progress"
        /\ display'.msg.evicted = evicted
        /\ evicted' = evicted

\* C25: the eviction counter and the line buffer are modified only by the reader
\* thread; drain_nodes only reads them, and every progress line rendered shows a
\* value the counter held at that or an earlier moment.
C25_SingleWriter ==
    /\ [][SingleWriterStep]_vars
    /\ [][RenderStep]_vars
    /\ [](display.kind = "progress" =>
             (display.msg.evicted >= 0 /\ display.msg.evicted <= evicted))

\* a stale render: the line shows 0 while the reader has counted an eviction since
C25_Witness ==
    /\ display.kind = "progress"
    /\ display.msg.evicted = 0
    /\ evicted = 1
    /\ procState = "running"

----------------------------------------------------------------------------
(* The capacity-type filter of scale (checked under SpecScale) *)

\* C22: scale accepts only spot and on-demand as capacity-type filter: with any
\* other value the command is past its start only as an exit with non-zero status
\* and no external call made, the value never reaching the selection of groups.
C22_ScaleCaptypeRestricted ==
    (scaleCaptype \notin {None, "spot", "on-demand"} /\ scalePc \notin {"idle", "start"}) =>
        /\ scalePc = "exit"
        /\ scaleExit # 0
        /\ awsCalls = NoAwsCalls

----------------------------------------------------------------------------
(* Termination of drain_nodes (checked under SpecDrainLive) *)

\* the positions of the polling loop and of the normal way out
InLoop == pc \in {"poll", "join", "render", "join_final", "clear", "result"}

\* C24: drain_nodes never waits without bound on the reader thread: once the drain
\* process has exited the call returns or raises, and once the cancellation path
\* is entered the call raises, whatever the reader does and whether or not it
\* reaches the end of the stream.
C24_NeverWaitsOnReader ==
    /\ (show_progress /\ InLoop /\ procState = "exited") ~> (pc \in {"returned", "raised"})
    /\ (pc \in {"terminate", "wait", "finally"}) ~> (pc = "raised")

\* the call has returned while the reader has not reached the end of the stream
C24_Witness ==
    /\ show_progress
    /\ pc = "returned"
    /\ procState = "exited"
    /\ rpc # "done"
    /\ ~readerJoined

----------------------------------------------------------------------------
(* Phases of a progress-mode drain (checked under SpecDrain) *)

\* the pod count is over before the one launch, the launch names every node and
\* merges the streams, and the progress line is written only after it
DrainPhases ==
    /\ Len(launches) <= 1
    /\ (launches # <<>>) = (procState # "none" /\ show_progress)
    /\ launches # <<>> =>
          /\ countOutcome # "none"
          /\ pc \notin {"entry", "launch"}
          /\ launches[1] = [nodes |-> node_names, stderr |-> "STDOUT"]
    /\ display # NoDisplay => launches # <<>>
    /\ pc \in {"poll", "join", "render", "join_final"} => launches # <<>>

\* nothing is rendered once the line was wiped
WipedLast ==
    display.kind \in {"cleared", "residue"} => pc \in {"result", "returned", "raised"}

\* C26: a progress-mode drain counts the pods before it launches the drain process,
\* launches it exactly once for the full node set with both streams merged, renders
\* no progress line before the launch, and on every exit path after the launch the
\* progress line is blank, the clearing being the last write to it.
C26_PhasesAndClearedLine ==
    /\ DrainPhases
    /\ WipedLast
    /\ (pc \in {"returned", "raised"} /\ launches # <<>>) => display = Cleared

----------------------------------------------------------------------------
(* Order of cordon and drain in cordon-drain (checked under SpecCli) *)

\* the cordon that returned 0 for the nodes `wanted`
CordonedOk(wanted) ==
    [op |-> "cordon", nodes |-> wanted, raised |-> "none", rc |-> 0]

\* C27: in cordon-drain a drain is started only after the cordon of the same node
\* list returned status 0; when the cordon returns a non-zero status the command
\* exits with that status and starts no drain; when the drain returns, the
\* command's exit status is the drain's.
C27_DrainOnlyAfterCordon ==
    cmd = "cordon-drain" =>
        /\ \A i \in 1..Len(controlLog) :
              controlLog[i].op = "drain" =>
                  /\ i = 2
                  /\ controlLog[i].nodes = node_list
                  /\ controlLog[1] = CordonedOk(controlLog[i].nodes)
        /\ (controlLog # <<>> /\ controlLog[1].raised = "none" /\ controlLog[1].rc # 0) =>
              /\ Len(controlLog) = 1
              /\ calls.drain = 0
              /\ cliPc = "exit"
              /\ exitCode = controlLog[1].rc
        /\ (cliPc = "exit" /\ Len(controlLog) = 2 /\ controlLog[2].raised = "none") =>
              exitCode = controlLog[2].rc

\* the cordon returned 0 and the drain returned 2: the command exits with 2
C27_Witness ==
    /\ cmd = "cordon-drain"
    /\ cliPc = "exit"
    /\ Len(controlLog) = 2
    /\ controlLog[1] = CordonedOk(node_list)
    /\ controlLog[2] = [op |-> "drain", nodes |-> node_list, raised |-> "none", rc |-> 2]
    /\ exitCode = 2

----------------------------------------------------------------------------
(* Properties of PodInfo.from_dict (checked under SpecRaw) *)

\* the container statuses of the record, in the order listed
StatusList ==
    IF "status" \in DOMAIN podObj /\ "containerStatuses" \in DOMAIN podObj["status"]
    THEN podObj["status"]["containerStatuses"]
    ELSE <<>>

\* the waiting reason the i-th container status reports, "" if it reports none
ReasonAt(i) ==
    LET cs == StatusList[i]
    IN IF "state" \in DOMAIN cs /\ "waiting" \in DOMAIN cs["state"]
          /\ "reason" \in DOMAIN cs["state"]["waiting"]
       THEN cs["state"]["waiting"]["reason"]
       ELSE ""

\* the restart count the i-th container status reports, 0 if it reports none
RestartsAt(i) ==
    IF "restartCount" \in DOMAIN StatusList[i] THEN StatusList[i]["restartCount"] ELSE 0

RECURSIVE RestartsUpTo(_)
\* the restart counts of the first n container statuses, added up
RestartsUpTo(n) == IF n = 0 THEN 0 ELSE RestartsUpTo(n - 1) + RestartsAt(n)

\* the phase of the record ("Unknown" when it has none)
PhaseOf ==
    IF "status" \in DOMAIN podObj /\ "phase" \in DOMAIN podObj["status"]
    THEN podObj["status"]["phase"]
    ELSE "Unknown"

\* the owner references of the record
OwnerRefs ==
    IF "metadata" \in DOMAIN podObj /\ "ownerReferences" \in DOMAIN podObj["metadata"]
    THEN podObj["metadata"]["ownerReferences"]
    ELSE <<>>

\* C28: for every pod record, status is the waiting reason of the first container
\* status that reports a non-empty one and the pod phase when none does, restarts
\* is the sum of the restart counts of all container statuses, and is_daemonset
\* holds exactly when some owner reference has kind DaemonSet.
C28_PodInfoFields ==
    podInfo.converted = TRUE =>
        LET reporting == { i \in 1..Len(StatusList) : ReasonAt(i) # "" }
        IN /\ reporting # {} =>
                 \E i \in reporting :
                     /\ \A j \in reporting : i <= j
                     /\ podInfo.status = ReasonAt(i)
           /\ reporting = {} => podInfo.status = PhaseOf
           /\ podInfo.restarts = RestartsUpTo(Len(StatusList))
           /\ podInfo.is_daemonset =
                 (\E i \in 1..Len(OwnerRefs) :
                     "kind" \in DOMAIN OwnerRefs[i] /\ OwnerRefs[i]["kind"] = "DaemonSet")

\* two containers waiting for different reasons: the first one's is the status
C28_Witness ==
    /\ podInfo.converted = TRUE
    /\ Len(StatusList) = 2
    /\ ReasonAt(1) = "CrashLoopBackOff"
    /\ ReasonAt(2) = "ImagePullBackOff"
    /\ podInfo.status = "CrashLoopBackOff"
    /\ podInfo.restarts = 2
    /\ PhaseOf = "Running"
    /\ podInfo.is_daemonset

====
